---------------------------- MODULE Spec2Model ----------------------------
(***************************************************************************)
(* Ingest engine of the chain data indexer: the range runner (syncRange),  *)
(* the PostgreSQL sink (PostgresSink) and the entry point (main).          *)
(*                                                                         *)
(* Execution model.  The runner is single-threaded JavaScript: code runs   *)
(* to completion between two awaits that wait for I/O.  An action of this  *)
(* module is one such turn of the event loop: the completion of an RPC /   *)
(* decode / assemble chain of one height, of one SQL round trip of the     *)
(* sink, or of a setImmediate callback, together with every synchronous    *)
(* statement and promise continuation that runs before the next I/O wait.  *)
(* A rejected promise nobody handles ends the process with exit code 1     *)
(* (Node >= 15, the runtime the repository is run with).                   *)
(***************************************************************************)
EXTENDS Integers, Sequences, FiniteSets, TLC

(* ------------------------------ bounds -------------------------------- *)

\* Configured first height (cfg.from) and last height (cfg.to) of the range.
CfgFrom == 1
MaxHeight == 3
\* opts.concurrency
Concurrency == 2
\* opts.maxBlockRetries
MaxBlockRetries == 1
\* batchSizes.blocks and the batch size of every other table
BatchBlocks == 2
BatchRows == 2
\* number of process runs (the first start and the restarts after it)
MaxRuns == 2

\* RPC client: opts.rps, opts.retries, opts.backoffMs (in ticks)
Rps == 1
Retries == 1
BackoffTicks == 1
\* clock ticks per second, last tick of the clock, concurrent getJson
\* callers
TicksPerSec == 2
MaxTime == 4
NumCallers == 3
\* callers whose requests may fail
NumRetryCallers == 1
\* decode pool: workers, transactions of the block, message ids
PoolSize == 2
NumTxs == 3
NumIds == 2
\* follow loop: the highest latest_block_height the node reports
MaxLatest == 4
\* sink operations on the store: database sessions, the partition step
\* (STEP, scaled down) and the highest row height
NumSessions == 2
\* one table under its conflict clause: primary keys, non-null values of
\* a column, rows per batch
NumKeys == 2
NumVals == 1
MaxBatch == 2
\* row extraction: messages per transaction, events per log entry
MaxMsgs == 2
MaxEvents == 2
PartStep == 2
MaxPartHeight == 4

\* execBatchedInsert: the most rows of one call, the most columns of a
\* table, and the largest row and placeholder caps a caller passes.
MaxSplitRows == 4
MaxCols == 3
MaxRowsCap == 3
MaxParamsCap == 4

Heights == CfgFrom..MaxHeight
To == MaxHeight

\* progress: no row in core.indexer_progress
NoProgress == 0

(* ------------------------------ helpers ------------------------------- *)

EmptyMap == [x \in {} |-> 0]

MapPut(m, k, v) == [x \in (DOMAIN m) \cup {k} |-> IF x = k THEN v ELSE m[x]]

MapRemove(m, k) == [x \in (DOMAIN m) \ {k} |-> m[x]]

SeqSet(s) == {s[i] : i \in 1..Len(s)}

SetMax(S) == CHOOSE x \in S : \A y \in S : y <= x

(* ------------------------------- sink --------------------------------- *)

\* The per-table buffers of PostgresSink, in the order flushAll flushes them.
Tables ==
  << "blocks", "txs", "msgs", "events", "attrs", "transfers", "stakeDeleg",
     "stakeDistr", "wasmExec", "wasmEvents", "govDeposits", "govVotes",
     "govProposals" >>

TableSet == SeqSet(Tables)

\* The tables persistBlockAtomic inserts into, in its order.
AtomicTables ==
  << "blocks", "txs", "msgs", "events", "attrs", "transfers", "stakeDeleg",
     "stakeDistr", "wasmExec", "wasmEvents" >>

\* The row sets an assembled block can have: a block without transactions
\* and a block whose transactions carry messages.  assembleBlockJsonFromParts
\* sets no `gov` field, so the governance row sets of an assembled block
\* are empty.
Profiles ==
  { {"blocks"},
    {"blocks", "txs", "msgs"} }

\* extractRows: the rows of block h per table (one row, keyed by height).
ExtractRows(h, profile) == [t \in TableSet |-> IF t \in profile THEN <<h>> ELSE <<>>]

\* batchSizes
BatchSize(t) == IF t = "blocks" THEN BatchBlocks ELSE BatchRows

\* persistBlockBuffered: every buffer gets the block's rows appended.
PushRows(b, rows) == [t \in TableSet |-> b[t] \o rows[t]]

\* needFlush with `>` in place of `>=`: a buffer may reach its threshold.
NeedFlushAbove(b) == \E t \in TableSet : Len(b[t]) > BatchSize(t)

\* persistBlockBuffered: needFlush
NeedFlush(b) == \E t \in TableSet : Len(b[t]) >= BatchSize(t)

\* flushAll: the guard of its early return (all buffers empty)
AllEmpty(b) == \A t \in TableSet : Len(b[t]) = 0

\* flushAll: heights, minH, maxH over every buffered row
BufHeights(b) == UNION {SeqSet(b[t]) : t \in TableSet}


\* The store with no committed row: per table, the keys (heights) it holds.
EmptyDb == [t \in TableSet |-> {}]

EmptyBuf == [t \in TableSet |-> <<>>]

\* flushAll / persistBlockAtomic: the first table at or after position i
\* whose statement is sent (flushX and the `if (rows.length)` guards send
\* nothing for an empty row set); Len + 1 when there is none.
RECURSIVE NextStatement(_, _, _)
NextStatement(tbls, rows, i) ==
  IF i > Len(tbls) THEN i
  ELSE IF Len(rows[tbls[i]]) > 0 THEN i
  ELSE NextStatement(tbls, rows, i + 1)

\* An upsert that stores the height after the one it is given.
UpsertProgressAhead(old, lastHeight) == lastHeight + 1

\* upsertProgress: the row written for the progress id (last write wins).
UpsertProgress(old, lastHeight) == lastHeight

\* The inserts sent on the pool instead of the transaction's client: each
\* statement commits on its own and ROLLBACK undoes nothing.
RolledBackNothing(committed, pending) ==
  [t \in TableSet |-> committed[t] \cup {r[2] : r \in {x \in pending : x[1] = t}}]

\* ROLLBACK: the committed store is what it was before BEGIN.
RolledBack(committed, pending) == committed

\* upsertProgress sent on the pool instead of the transaction's client: it
\* commits on its own and survives the ROLLBACK.
ProgressKept(committed, pending) == IF pending = NoProgress THEN committed ELSE pending

\* ROLLBACK: upsertProgress ran on the transaction's client, so the
\* progress row is what it was before BEGIN.
ProgressRolledBack(committed, pending) == committed

\* COMMIT of the inserts: ON CONFLICT (key) DO NOTHING keeps one row per key.
\* The transaction's pending rows are pairs <<table, height>>.
Committed(committed, pending) ==
  [t \in TableSet |-> committed[t] \cup {r[2] : r \in {x \in pending : x[1] = t}}]

(* ------------------------------ runner -------------------------------- *)

\* A retry decision with `<` in place of `<=`: one attempt fewer.
ShouldRetryStrict(n) == n < MaxBlockRetries

\* processHeight: `n <= maxBlockRetries` decides between retry and skip.
ShouldRetry(n) == n <= MaxBlockRetries

\* A loop condition with `<=` in place of `<`: one task more.
CanSpawnOneMore(inF, nh, rq) == inF <= Concurrency /\ (nh <= To \/ Len(rq) > 0)

\* maybeSpawn: the loop condition.
CanSpawn(inF, nh, rq) == inF < Concurrency /\ (nh <= To \/ Len(rq) > 0)

\* A resolve() condition that does not look at the retry queue.
IsDoneIgnoringRetries(nh, rq, inF) == nh > To /\ inF = 0

\* the completion callback of processHeight: the condition of resolve().
IsDone(nh, rq, inF) == nh > To /\ Len(rq) = 0 /\ inF = 0

\* tryFlush: ready.has(nextToFlush)
HasReady(rd, n) == n \in DOMAIN rd

\* tryFlush with ready.delete moved behind the await: the entry stays.
ReadyKept(rd, n) == rd

\* tryFlush: ready.delete(nextToFlush), before the entry is looked at.
ReadyAfterTake(rd, n) == MapRemove(rd, n)

\* tryFlush: the test for a skip marker ({ __skip: true, height, error }).
IsSkipMarker(obj) == obj.skip

SkipMarker == [skip |-> TRUE, rows |-> {}]

Assembled(profile) == [skip |-> FALSE, rows |-> profile]

\* main calling sink.flush() and sink.close(): the caller that is no height.
MainCaller == 0

Callers == Heights \cup {MainCaller}

\* A sink operation (persistBlockAtomic or flushAll) of one caller: the round
\* trip it awaits (pc), the height being written (h) and the row sets of
\* its block (rows, persistBlockAtomic's locals), the position of the
\* statement in flight (tbl), maxH, and what its connection holds inside
\* the open transaction: the pending rows (txn) and progress row (prog).
IdleOp ==
  [ pc |-> "idle", h |-> 0, rows |-> {}, tbl |-> 0, maxH |-> 0,
    txn |-> {}, prog |-> NoProgress ]

VARIABLES
  chain,        \* the chain: the row-set profile of the block at each height
  mode,         \* PostgresSink.mode
  run,          \* number of the process run
  proc,         \* main: "sync", "flush", "close", "exit0", "exit1"
  from,         \* syncRange: opts.from
  nextHeight, inFlight, ready, nextToFlush, processed, attempts, retryQueue,
  pendingSpawn, \* setImmediate(maybeSpawn) callbacks not yet run
  task,         \* per height: "idle", "fetch" (in processHeight's try) or
                \* "write" (in tryFlush, awaiting sink.write)
  resolved,     \* the promise syncRange awaits is resolved
  buf,          \* PostgresSink.buf*: rows per table
  op,           \* per caller: the sink operation it awaits
  db,           \* committed rows per table
  progress,     \* committed core.indexer_progress.last_height
  writeLog,     \* history: the sink.write invocations of this run
  written,      \* history: heights whose sink.write returned in this run
  skipped,      \* history: heights whose skip marker tryFlush passed
  spawnCount,   \* history: processHeight calls per height in this run
  handed,       \* history: heights whose sink.write returned in this run, or
                \* returned in an earlier run that ended before committing them
                \* and that no later pass of tryFlush skipped
  flushSnap,    \* history: the buffers when the last flushAll began
  sinkFailed    \* history: a sink operation of this run threw

\* The range runner, the sink and main.
coreVars ==
  << chain, mode, run, proc, from, nextHeight, inFlight, ready, nextToFlush,
     processed, attempts, retryQueue, pendingSpawn, task, resolved, buf, op,
     db, progress, writeLog, written, skipped, spawnCount, handed, flushSnap,
     sinkFailed >>

VARIABLES
  now,          \* Date.now(), in ticks
  bucket,       \* createTokenBucket: tokens (in 1/TicksPerSec token) and last
  rpc,          \* per caller: its getJson call
  started       \* history: HTTP requests started in the last second, per
                \* tick, the current tick first

rpcVars == << now, bucket, rpc, started >>

VARIABLES
  boot          \* getConfig and main up to the call of syncRange

VARIABLES
  readyFlags,   \* createTxDecodePool: readyFlags
  idle,         \* createTxDecodePool: idle, the queue of worker indexes
  pending,      \* createTxDecodePool: pending, message id -> submit call
  wk,           \* per worker thread: "init", "up" or "dead"
  jobs,         \* per worker thread: decode messages posted, not answered
  sub,          \* per transaction of the block: its pool.submit call,
                \* "new", "waiting", "assigned", "resolved" or "rejected"
  blk           \* processHeight: the block whose transactions these are

poolVars == << readyFlags, idle, pending, wk, jobs, sub, blk >>

VARIABLES
  fl            \* main after the backfill, and followLoop

VARIABLES
  sess,         \* per database session: the sink operation that runs on it
  lock,         \* the session that holds the advisory lock, or NoSession
  parts         \* the bases of the range partitions that exist

txnVars == << sess, lock, parts >>

VARIABLES
  tb          \* one table of the store, and the batch a flusher sends to it;
              \* or one call of execBatchedInsert and the statements it sent

VARIABLES
  xr          \* one transaction of a block record, and extractRows on it

VARIABLES
  pgMode      \* getConfig: cfg.pg.mode, the configured SQL mode

VARIABLES
  late        \* history: heights of which an attempt timed out while the
              \* step it waited for goes on

\* Everything but the range runner, the sink and main.
auxVars == << rpcVars, boot, poolVars, fl, txnVars, tb, xr, pgMode, late >>

\* What the actions of one component leave alone.
restOfRpc == << coreVars, boot, poolVars, fl, txnVars, tb, xr, pgMode, late >>
restOfBoot == << coreVars, rpcVars, poolVars, fl, txnVars, tb, xr, pgMode, late >>
restOfPool == << coreVars, rpcVars, boot, fl, txnVars, tb, xr, pgMode, late >>
restOfFollow == << coreVars, rpcVars, boot, poolVars, txnVars, tb, xr, pgMode, late >>
restOfTxn == << coreVars, rpcVars, boot, poolVars, fl, tb, xr, pgMode, late >>
restOfUpsert == << coreVars, rpcVars, boot, poolVars, fl, txnVars, xr, pgMode, late >>
restOfExtract == << coreVars, rpcVars, boot, poolVars, fl, txnVars, tb, pgMode, late >>
restOfConfig == << coreVars, rpcVars, boot, poolVars, fl, txnVars, tb, xr, late >>
restOfLate == << coreVars, rpcVars, boot, poolVars, fl, txnVars, tb, xr, pgMode >>
auxButLate == << rpcVars, boot, poolVars, fl, txnVars, tb, xr, pgMode >>

vars == << coreVars, auxVars >>

(* ---------------------------- token bucket ---------------------------- *)

Min(a, b) == IF a <= b THEN a ELSE b

Max(a, b) == IF a >= b THEN a ELSE b

\* Math.ceil(a / b) for a >= 0, b > 0
CeilDiv(a, b) == (a + b - 1) \div b

\* createRpcClient: createTokenBucket(rps, 2)
BurstMultiplier == 2

\* createTokenBucket: capacity, in tokens
Capacity == Max(1, Rps * BurstMultiplier)

\* One token, and the capacity, in the unit of bucket.tokens.  A tick adds
\* Rps units: rps tokens per second.
OneToken == TicksPerSec
FullBucket == Capacity * TicksPerSec

\* createTokenBucket: the new bucket, created at time t.
NewBucket(t) == [tokens |-> FullBucket, last |-> t]

\* refill() at time t
Refill(b, t) ==
  IF t - b.last > 0
  THEN [tokens |-> Min(FullBucket, b.tokens + (t - b.last) * Rps), last |-> t]
  ELSE b

\* take(n): `tokens >= n` after refill()
HasTokens(b, n) == b.tokens >= n * OneToken

\* take(n): the timer it sets when the tokens do not suffice
WaitTicks(b, n) == Max(1, CeilDiv(n * OneToken - b.tokens, Rps))

\* take(n) once its timer fired at time t: refill(), then
\* tokens = Math.max(0, tokens - n)
TakeAfterWait(b, n, t) ==
  [Refill(b, t) EXCEPT !.tokens = Max(0, @ - n * OneToken)]

(* ------------------------------ getJson ------------------------------- *)

RpcCallers == 1..NumCallers

\* How one HTTP attempt ends: a 2xx response with a JSON body, a 4xx status
\* other than 429, 429, 5xx, a 2xx response whose body is not JSON, the
\* timeout's abort (AbortError), ECONNRESET / ETIMEDOUT, another failure.
Outcomes ==
  { "ok", "http4xx", "http429", "http5xx", "parseError", "abort", "connReset",
    "netError" }

\* A predicate that takes every error status for a retryable one.
IsRetryStatusAny(o) == o \in {"http4xx", "http429", "http5xx"}

\* getJson: res.status >= 500 || res.status === 429
IsRetryStatus(o) == o \in {"http429", "http5xx"}

\* getJson: transient
IsTransient(o) == o \in {"abort", "connReset"}

\* A retry test with `<=` in place of `<`.
CanRetryOnceMore(attempt) == attempt <= Retries

\* getJson: attempt < opts.retries
CanRetry(attempt) == attempt < Retries

\* 2^n
RECURSIVE Pow2(_)
Pow2(n) == IF n = 0 THEN 1 ELSE 2 * Pow2(n - 1)

\* getJson: the backoff delay, with backoffJitter = 0
Delay(attempt) == BackoffTicks * Pow2(attempt)

\* A getJson call: where it waits (pc: "idle", "take" in bucket.take,
\* "fetch", "backoff" in sleep, "done" returned, "failed" thrown), the loop
\* variable attempt, the due time of its timer, and as history the outcome
\* of its latest attempt ("none" before the first one ends), the
\* bucket.take calls that returned and the attempts started.
IdleCall ==
  [ pc |-> "idle", attempt |-> 0, wakeAt |-> 0, outcome |-> "none",
    takes |-> 0, tries |-> 0 ]

RpcInit ==
  /\ now = 0
  /\ bucket = NewBucket(0)
  /\ rpc = [c \in RpcCallers |-> IdleCall]
  /\ started = [i \in 1..TicksPerSec |-> 0]

\* An option that is not given (undefined).
Undefined == 0

\* What getConfig and main read: --from / FROM, --to / TO (Undefined also
\* for `latest`), --resume / RESUME, the sink kind, FIRST_BLOCK (getConfig
\* always sets it), the progress row's last_height (NoProgress: no row) and
\* the node's earliest and latest block heights.
BootInputs ==
  [ from : {Undefined} \cup Heights, to : {Undefined} \cup Heights,
    resume : BOOLEAN, sinkKind : {"postgres", "file"}, firstBlock : Heights,
    last : {NoProgress} \cup Heights, earliest : Heights, latest : Heights ]

\* boot before getConfig has run, with input i.
BootStart(i) ==
  [ cfg |-> i, pc |-> "getConfig", startFrom |-> Undefined,
    endHeight |-> Undefined ]

BootParked ==
  boot = BootStart([ from |-> CfgFrom, to |-> To, resume |-> FALSE,
                     sinkKind |-> "postgres", firstBlock |-> CfgFrom,
                     last |-> NoProgress, earliest |-> CfgFrom,
                     latest |-> To ])

(* ----------------------------- decode pool ---------------------------- *)

Workers == 1..PoolSize
Txs == 1..NumTxs
Ids == 1..NumIds

\* What decodeTxBase64 does with a transaction: it decodes it ("good"); it
\* cannot split it into body and auth_info and returns the tx with an empty
\* body ("opaque"); or the bytes split but TxBody.decode, AuthInfo.decode or
\* a message decoder throws on them ("throws").
TxKinds == {"good", "opaque", "throws"}

\* onDecode: the `ok` of the message the worker posts for a transaction
DecodeOk(kind) == kind # "throws"

\* A ready handler that does not look at readyFlags.
ShouldMarkReadyAlways(flag) == TRUE

\* createTxDecodePool: `if (!readyFlags[i])` of the ready message, the init
\* timer and the error event
ShouldMarkReady(flag) == ~flag

\* The pool after createTxDecodePool, and a block whose transactions
\* processHeight is about to submit.
PoolStart ==
  /\ readyFlags = [w \in Workers |-> FALSE]
  /\ idle = <<>>
  /\ pending = EmptyMap
  /\ wk = [w \in Workers |-> "init"]
  /\ jobs = [w \in Workers |-> {}]
  /\ sub = [i \in Txs |-> "new"]
  /\ blk = [st |-> "decoding", cause |-> "none"]

PoolParked == PoolStart

(* ----------------------------- follow loop ---------------------------- *)

\* followLoop: the cap on the concurrency of a live range
FollowMaxConcurrency == 16

\* main after the backfill over a range that ended at endHeight returned,
\* with cfg.follow and cfg.concurrency.  ranges is the history of the
\* syncRange calls of followLoop, flushes counts its sink.flush calls.
FollowStart(endHeight, follow, concurrency) ==
  [ pc |-> "main", endHeight |-> endHeight, follow |-> follow,
    concurrency |-> concurrency, next |-> 0, latest |-> 0, ranges |-> <<>>,
    flushes |-> 0 ]

FollowParked == fl = FollowStart(To, FALSE, Concurrency)

(* --------------------- sink operations on the store ------------------- *)

Sessions == 1..NumSessions

NoSession == 0

\* ensureCorePartitions: Math.floor(h / STEP) * STEP
PartBase(h) == (h \div PartStep) * PartStep

\* A session that has not started its sink operation.  kind is "atomic" (persistBlockAtomic)
\* or "flushAll"; minH..maxH are the heights of its rows; finite tells
\* whether a row has a finite height; base is the loop variable of
\* ensureCorePartitions; acquired and released count pool.connect() and
\* client.release() of the operation; inserted tells whether an INSERT ran.
IdleSession ==
  [ pc |-> "idle", kind |-> "none", minH |-> 0, maxH |-> 0, finite |-> TRUE,
    base |-> 0, acquired |-> 0, released |-> 0, inserted |-> FALSE ]

\* The store after initdb: the partitions _p0.
TxnInit ==
  /\ sess = [s \in Sessions |-> IdleSession]
  /\ lock = NoSession
  /\ parts = {0}

(* ------------------- flushers: the conflict clauses ------------------- *)

Keys == 1..NumKeys

\* makeMultiInsert: r[c] ?? null
Null == 0

\* The values of the one column beside the key, NULL included.
Vals == 0..NumVals

\* No row with this key.
Absent == 0 - 1

\* The conflict clauses of the flushers: DO NOTHING (blocks, messages,
\* events, attributes, transfers, staking, wasm, deposits, votes),
\* DO UPDATE SET col = EXCLUDED.col (transactions) and
\* DO UPDATE SET col = COALESCE(EXCLUDED.col, table.col) (proposals).
Policies == {"nothing", "update", "coalesce"}

\* The rows of a table: for each key its column value, or Absent.
Stores == [Keys -> Vals \cup {Absent}]

\* A row of a batch.
BatchRowsOf == [k : Keys, u : Vals]

\* The batches of at most MaxBatch rows.
Batches == UNION {[1..n -> BatchRowsOf] : n \in 0..MaxBatch}

\* A table, the batch sent to it, the number of times it was sent (n), the
\* table before the last time (prev), whether it then held every row of
\* the batch (had), and the table after the first time (once).
TableStart(policy, store, batch) ==
  [ policy |-> policy, store |-> store, batch |-> batch, n |-> 0,
    prev |-> store, had |-> FALSE, once |-> store ]

UpsertParked == tb = TableStart("nothing", [k \in Keys |-> Absent], << >>)

(* ----------------------- extractRows: one tx ------------------------- *)

\* A transaction as the chain executed it and as the indexer sees it: msgs
\* messages on chain; decoded "ok" or "placeholder" (decodeTxBase64 could
\* not split the bytes: body.messages = []); jsonLog tells whether the
\* result's log is the JSON array of per-message entries (one entry per
\* message, events events each) or plain text; omit0 whether the entry of
\* message 0 leaves msg_index out; txEvents the number of tx-level events.
TxInputs ==
  [ msgs : 0..MaxMsgs, decoded : {"ok", "placeholder"}, jsonLog : BOOLEAN,
    omit0 : BOOLEAN, events : 1..MaxEvents, txEvents : 0..1 ]

\* extractRows not yet called on the transaction.
ExtractStart(tx) == [ tx |-> tx, done |-> FALSE, msgRows |-> {}, evRows |-> {} ]

ExtractParked ==
  xr = ExtractStart([ msgs |-> 0, decoded |-> "ok", jsonLog |-> FALSE,
                      omit0 |-> FALSE, events |-> 1, txEvents |-> 0 ])

(* ------------------------- main: createSink -------------------------- *)

\* asPgMode: the two SQL modes.
PgModes == {"batch-insert", "block-atomic"}

\* The configured mode when main is not modelled: getConfig's default.
PgModeParked == pgMode = "batch-insert"

\* No attempt has timed out.
LateParked == late = {}

AuxParked == RpcInit /\ BootParked /\ PoolParked /\ FollowParked /\ TxnInit /\ UpsertParked /\ ExtractParked /\ PgModeParked /\ LateParked


\* The state of a process that has just entered syncRange(startFrom, To).
FreshRun(startFrom) ==
  /\ proc' = "sync"
  /\ from' = startFrom
  /\ nextHeight' = startFrom
  /\ inFlight' = 0
  /\ ready' = EmptyMap
  /\ nextToFlush' = startFrom
  /\ processed' = 0
  /\ attempts' = [h \in Heights |-> 0]
  /\ retryQueue' = <<>>
  /\ pendingSpawn' = 1
  /\ task' = [h \in Heights |-> "idle"]
  /\ resolved' = FALSE
  /\ buf' = EmptyBuf
  /\ op' = [c \in Callers |-> IdleOp]
  /\ writeLog' = <<>>
  /\ written' = {}
  /\ skipped' = {}
  /\ spawnCount' = [h \in Heights |-> 0]
  /\ flushSnap' = EmptyBuf
  /\ sinkFailed' = FALSE

CoreStart ==
  /\ run = 1
  /\ proc = "sync"
  /\ from = CfgFrom
  /\ nextHeight = CfgFrom
  /\ inFlight = 0
  /\ ready = EmptyMap
  /\ nextToFlush = CfgFrom
  /\ processed = 0
  /\ attempts = [h \in Heights |-> 0]
  /\ retryQueue = <<>>
  /\ pendingSpawn = 1
  /\ task = [h \in Heights |-> "idle"]
  /\ resolved = FALSE
  /\ buf = EmptyBuf
  /\ op = [c \in Callers |-> IdleOp]
  /\ db = EmptyDb
  /\ progress = NoProgress
  /\ writeLog = <<>>
  /\ written = {}
  /\ skipped = {}
  /\ spawnCount = [h \in Heights |-> 0]
  /\ handed = {}
  /\ flushSnap = EmptyBuf
  /\ sinkFailed = FALSE

Init ==
  /\ chain \in [Heights -> Profiles]
  /\ mode \in {"batch-insert", "block-atomic"}
  /\ CoreStart
  /\ AuxParked

\* The range runner, the sink and main before main has run, for the
\* specifications of the other components.
CoreParked ==
  /\ chain = [h \in Heights |-> CHOOSE p \in Profiles : TRUE]
  /\ mode = "batch-insert"
  /\ CoreStart

(* ----------------------- syncRange: maybeSpawn ------------------------ *)

\* maybeSpawn: the while loop.  Each iteration takes the head of the retry
\* queue, or else nextHeight++, and calls processHeight for it, which runs
\* up to its first await (the fetches).
RECURSIVE SpawnLoop(_)
SpawnLoop(s) ==
  IF ~CanSpawn(s.inFlight, s.nextHeight, s.retryQueue) THEN s
  ELSE LET retry == Len(s.retryQueue) > 0
           h == IF retry THEN Head(s.retryQueue) ELSE s.nextHeight
       IN SpawnLoop(
            [ inFlight |-> s.inFlight + 1,
              nextHeight |-> IF retry THEN s.nextHeight ELSE s.nextHeight + 1,
              retryQueue |-> IF retry THEN Tail(s.retryQueue) ELSE s.retryQueue,
              task |-> [s.task EXCEPT ![h] = "fetch"],
              spawnCount |-> [s.spawnCount EXCEPT ![h] = @ + 1] ])

Alive == proc \in {"sync", "flush", "close"}

\* One call of maybeSpawn: the direct call of syncRange or a setImmediate
\* callback scheduled by a finished height.
MaybeSpawn ==
  /\ Alive
  /\ pendingSpawn > 0
  /\ LET s == SpawnLoop([inFlight |-> inFlight, nextHeight |-> nextHeight,
                         retryQueue |-> retryQueue, task |-> task,
                         spawnCount |-> spawnCount])
     IN /\ inFlight' = s.inFlight
        /\ nextHeight' = s.nextHeight
        /\ retryQueue' = s.retryQueue
        /\ task' = s.task
        /\ spawnCount' = s.spawnCount
  /\ pendingSpawn' = pendingSpawn - 1
  /\ UNCHANGED << chain, mode, run, proc, from, ready, nextToFlush, processed,
                  attempts, resolved, buf, op, db, progress, writeLog, written,
                  skipped, handed, flushSnap, sinkFailed >>
  /\ UNCHANGED auxVars

(* ------------------------- syncRange: tryFlush ------------------------ *)

\* PostgresSink.write, up to its first wait for I/O, for the entry obj of
\* height h.  A line with an `error` field is ignored.  block-atomic: the
\* rows are extracted and a connection is requested.  batch-insert: the
\* rows are appended to the buffers and, when a threshold is reached,
\* flushAll requests a connection.
SinkWrite(s, h, obj) ==
  IF obj.skip THEN [s EXCEPT !.blocked = FALSE]
  ELSE IF mode = "block-atomic"
  THEN [s EXCEPT !.blocked = TRUE,
                 !.opRec = [IdleOp EXCEPT !.pc = "connect", !.h = h,
                                          !.rows = obj.rows]]
  ELSE LET b == PushRows(s.buf, ExtractRows(h, obj.rows))
       IN IF NeedFlush(b)
          THEN [s EXCEPT !.buf = b, !.flushSnap = b, !.blocked = TRUE,
                         !.opRec = [IdleOp EXCEPT !.pc = "connect", !.h = h]]
          ELSE [s EXCEPT !.buf = b, !.blocked = FALSE]

\* tryFlush: what follows `await sink.write(obj)` once the write returned.
AfterWrite(s, h) ==
  [s EXCEPT !.nextToFlush = @ + 1, !.processed = @ + 1,
            !.written = @ \cup {h}, !.handed = @ \cup {h}]

\* tryFlush without the `continue` of the skip branch: the marker goes on to
\* sink.write, which ignores it, and nextToFlush is advanced a second time.
AfterSkipNoContinue(s, h) ==
  [s EXCEPT !.nextToFlush = @ + 2, !.processed = @ + 2,
            !.skipped = @ \cup {h}, !.handed = @ \ {h}]

\* tryFlush: the branch taken for a skip marker, ending in `continue`.
AfterSkip(s, h) ==
  [s EXCEPT !.nextToFlush = @ + 1, !.processed = @ + 1,
            !.skipped = @ \cup {h}, !.handed = @ \ {h}]

\* tryFlush: the while loop, run until ready has no entry for nextToFlush
\* or a sink.write waits for I/O (blocked).
RECURSIVE TryFlushLoop(_)
\* tryFlush entered, or its loop continued, with the state v: v is evaluated
\* once, then the loop runs on its value.
TryFlushFrom(v) == CHOOSE r \in {TryFlushLoop(x) : x \in {v}} : TRUE

TryFlushLoop(s) ==
  IF ~HasReady(s.ready, s.nextToFlush) THEN [s EXCEPT !.blocked = FALSE]
  ELSE LET h == s.nextToFlush
           obj == s.ready[h]
           s1 == [s EXCEPT !.ready = ReadyAfterTake(s.ready, h)]
       IN IF IsSkipMarker(obj)
          THEN TryFlushFrom(AfterSkip(s1, h))
          ELSE LET entry == [ height |-> h,
                              busy |-> s.busy,
                              prevCommitted |-> (h - 1) \in s.dbBlocks,
                              returned |-> s.written,
                              passed |-> s.skipped ]
                   w == SinkWrite([s1 EXCEPT !.writeLog = Append(@, entry)], h, obj)
               IN IF w.blocked THEN w ELSE TryFlushFrom(AfterWrite(w, h))

\* The runner and sink state tryFlush works on, for caller c.
LoopState(rd, dbNow, c) ==
  [ ready |-> rd, nextToFlush |-> nextToFlush, processed |-> processed,
    buf |-> buf, writeLog |-> writeLog, written |-> written,
    skipped |-> skipped, handed |-> handed, flushSnap |-> flushSnap,
    busy |-> \E c2 \in Callers \ {c} : op[c2].pc # "idle",
    dbBlocks |-> dbNow["blocks"],
    blocked |-> FALSE, opRec |-> IdleOp ]

\* processHeight has returned for height c: the callback passed to
\* .finally() of maybeSpawn.
Finished(c, rq) ==
  /\ task' = [task EXCEPT ![c] = "idle"]
  /\ inFlight' = inFlight - 1
  /\ IF IsDone(nextHeight, rq, inFlight - 1)
     THEN resolved' = TRUE /\ pendingSpawn' = pendingSpawn
     ELSE resolved' = resolved /\ pendingSpawn' = pendingSpawn + 1

\* The state after tryFlush ran for caller c (a height) and left r.
ApplyLoop(r, c, rq) ==
  /\ ready' = r.ready
  /\ nextToFlush' = r.nextToFlush
  /\ processed' = r.processed
  /\ buf' = r.buf
  /\ writeLog' = r.writeLog
  /\ written' = r.written
  /\ skipped' = r.skipped
  /\ handed' = r.handed
  /\ flushSnap' = r.flushSnap
  /\ IF r.blocked
     THEN /\ op' = [op EXCEPT ![c] = r.opRec]
          /\ task' = [task EXCEPT ![c] = "write"]
          /\ UNCHANGED << inFlight, resolved, pendingSpawn >>
     ELSE /\ op' = [op EXCEPT ![c] = IdleOp]
          /\ Finished(c, rq)

(* ----------------------- syncRange: processHeight --------------------- *)

\* The fetch / decode / assemble chain of height h ends: it succeeds (ok),
\* or a step fails or times out.  The catch block counts the attempt and
\* queues a retry or leaves a skip marker; the finally block runs tryFlush.
AttemptEnds(h, ok) ==
  /\ proc = "sync"
  /\ task[h] = "fetch"
  /\ LET n == attempts[h] + 1
         rd == IF ok THEN MapPut(ready, h, Assembled(chain[h]))
               ELSE IF ShouldRetry(n) THEN ready
               ELSE MapPut(ready, h, SkipMarker)
         rq == IF ~ok /\ ShouldRetry(n) THEN Append(retryQueue, h) ELSE retryQueue
     IN /\ attempts' = IF ok THEN attempts ELSE [attempts EXCEPT ![h] = n]
        /\ retryQueue' = rq
        /\ \E r \in {TryFlushFrom(LoopState(rd, db, h))} :
             ApplyLoop(r, h, rq)
  /\ UNCHANGED << chain, mode, run, proc, from, nextHeight, db, progress,
                  spawnCount, sinkFailed >>

ProcessHeight(h, ok) ==
  /\ AttemptEnds(h, ok)
  /\ UNCHANGED auxVars

(* ------------------- PostgresSink: one SQL round trip ----------------- *)

OpTables == IF mode = "block-atomic" THEN AtomicTables ELSE Tables

\* The row sets the statements of caller c's operation send: the block's
\* own rows (persistBlockAtomic) or the shared buffers (flushAll).
OpRows(c) ==
  IF mode = "block-atomic" THEN ExtractRows(op[c].h, op[c].rows) ELSE buf

\* The operation after the statement at position i - 1: the next statement
\* that is sent, else upsertProgress (flushAll) or COMMIT.
Advance(o, rows, i) ==
  LET j == NextStatement(OpTables, rows, i)
  IN IF j <= Len(OpTables) THEN [o EXCEPT !.pc = "insert", !.tbl = j]
     ELSE IF mode = "block-atomic" THEN [o EXCEPT !.pc = "commit"]
     ELSE [o EXCEPT !.pc = "progress"]

\* sink.write or sink.flush of caller c has returned.  A height goes on in
\* tryFlush behind `await sink.write(obj)`; main goes on to sink.close(),
\* which flushes once more, closes the pool, and the process ends.
OpReturns(c, dbNow) ==
  IF c \in Heights
  THEN /\ \E r \in {TryFlushFrom(AfterWrite(LoopState(ready, dbNow, c), op[c].h))} :
            ApplyLoop(r, c, retryQueue)
       /\ UNCHANGED << proc >>
  ELSE /\ IF proc = "flush" /\ mode = "batch-insert" /\ ~AllEmpty(buf)
          THEN /\ proc' = "close"
               /\ op' = [op EXCEPT ![c] = [IdleOp EXCEPT !.pc = "connect"]]
               /\ flushSnap' = buf
          ELSE /\ proc' = "exit0"
               /\ op' = [op EXCEPT ![c] = IdleOp]
               /\ UNCHANGED flushSnap
       /\ UNCHANGED << ready, nextToFlush, processed, buf, writeLog, written,
                       skipped, handed, task, inFlight, resolved, pendingSpawn >>

\* The awaited round trip of caller c's operation succeeds.
SinkStepOk(c) ==
  /\ Alive
  /\ op[c].pc \in {"connect", "partitions", "begin", "insert", "progress", "commit"}
  /\ LET o == op[c]
         t == OpTables[o.tbl]
     IN CASE o.pc = "connect" ->
               \* flushAll computes heights, minH and maxH from the buffers
               /\ op' = [op EXCEPT ![c] =
                           [o EXCEPT !.pc = "partitions",
                                     !.maxH = IF mode = "block-atomic" THEN o.h
                                              ELSE SetMax(BufHeights(buf))]]
               /\ UNCHANGED << ready, nextToFlush, processed, buf, writeLog,
                               written, skipped, handed, task, inFlight, resolved,
                               pendingSpawn, db, progress, proc, flushSnap >>
          [] o.pc = "partitions" ->
               /\ op' = [op EXCEPT ![c] = [o EXCEPT !.pc = "begin"]]
               /\ UNCHANGED << ready, nextToFlush, processed, buf, writeLog,
                               written, skipped, handed, task, inFlight, resolved,
                               pendingSpawn, db, progress, proc, flushSnap >>
          [] o.pc = "begin" ->
               /\ op' = [op EXCEPT ![c] = Advance(o, OpRows(c), 1)]
               /\ UNCHANGED << ready, nextToFlush, processed, buf, writeLog,
                               written, skipped, handed, task, inFlight, resolved,
                               pendingSpawn, db, progress, proc, flushSnap >>
          [] o.pc = "insert" ->
               \* the statement's rows join the transaction; flushAll then
               \* empties the buffer it has just flushed
               /\ LET b == IF mode = "block-atomic" THEN buf
                           ELSE [buf EXCEPT ![t] = <<>>]
                      o1 == [o EXCEPT !.txn = @ \cup {<<t, r>> : r \in SeqSet(OpRows(c)[t])}]
                  IN /\ buf' = b
                     /\ op' = [op EXCEPT ![c] =
                                 Advance(o1, IF mode = "block-atomic" THEN OpRows(c) ELSE b,
                                         o.tbl + 1)]
               /\ UNCHANGED << ready, nextToFlush, processed, writeLog, written,
                               skipped, handed, task, inFlight, resolved,
                               pendingSpawn, db, progress, proc, flushSnap >>
          [] o.pc = "progress" ->
               /\ op' = [op EXCEPT ![c] =
                           [o EXCEPT !.pc = "commit",
                                     !.prog = UpsertProgress(progress, o.maxH)]]
               /\ UNCHANGED << ready, nextToFlush, processed, buf, writeLog,
                               written, skipped, handed, task, inFlight, resolved,
                               pendingSpawn, db, progress, proc, flushSnap >>
          [] o.pc = "commit" ->
               /\ db' = Committed(db, o.txn)
               /\ progress' = IF o.prog = NoProgress THEN progress ELSE o.prog
               /\ OpReturns(c, Committed(db, o.txn))
  /\ UNCHANGED << chain, mode, run, from, nextHeight, attempts, retryQueue,
                  spawnCount, sinkFailed >>
  /\ UNCHANGED auxVars

\* The operation of caller c throws.  Nothing handles the rejection of a
\* height's processHeight: its .finally() callback still runs (and may
\* resolve syncRange), and the unhandled rejection ends the process with
\* exit code 1.  A rejection of sink.flush or sink.close reaches
\* main().catch, which exits with code 1.
OpThrows(c) ==
  /\ sinkFailed' = TRUE
  /\ op' = [op EXCEPT ![c] = IdleOp]
  /\ proc' = "exit1"
  /\ IF c \in Heights
     THEN Finished(c, retryQueue)
     ELSE UNCHANGED << task, inFlight, resolved, pendingSpawn >>

\* The awaited round trip of caller c's operation fails.  pool.connect() is
\* awaited outside the try block: its failure is thrown as it is.  Every
\* later failure is caught: ROLLBACK is sent and awaited.
SinkStepFail(c) ==
  /\ Alive
  /\ op[c].pc \in {"connect", "partitions", "begin", "insert", "progress", "commit"}
  /\ IF op[c].pc = "connect"
     THEN OpThrows(c)
     ELSE /\ op' = [op EXCEPT ![c] = [@ EXCEPT !.pc = "rollback"]]
          /\ UNCHANGED << task, inFlight, resolved, pendingSpawn, proc, sinkFailed >>
  /\ UNCHANGED << chain, mode, run, from, nextHeight, ready, nextToFlush,
                  processed, attempts, retryQueue, buf, db, progress, writeLog,
                  written, skipped, spawnCount, handed, flushSnap >>
  /\ UNCHANGED auxVars

\* ROLLBACK has been answered: the catch block rethrows.
SinkRollback(c) ==
  /\ Alive
  /\ op[c].pc = "rollback"
  /\ db' = RolledBack(db, op[c].txn)
  /\ progress' = ProgressRolledBack(progress, op[c].prog)
  /\ OpThrows(c)
  /\ UNCHANGED << chain, mode, run, from, nextHeight, ready, nextToFlush,
                  processed, attempts, retryQueue, buf, writeLog, written,
                  skipped, spawnCount, handed, flushSnap >>
  /\ UNCHANGED auxVars

(* -------------------------------- main -------------------------------- *)

\* main with follow = false, after syncRange returned: decodePool.close(),
\* then sink.flush(): flushAll in batch-insert mode (it returns at once
\* when every buffer is empty), nothing in block-atomic mode; then
\* sink.close().
MainFlush ==
  /\ proc = "sync"
  /\ resolved
  /\ IF mode = "batch-insert" /\ ~AllEmpty(buf)
     THEN /\ proc' = "flush"
          /\ op' = [op EXCEPT ![MainCaller] = [IdleOp EXCEPT !.pc = "connect"]]
          /\ flushSnap' = buf
     ELSE /\ proc' = "exit0"
          /\ UNCHANGED << op, flushSnap >>
  /\ UNCHANGED << chain, mode, run, from, nextHeight, inFlight, ready,
                  nextToFlush, processed, attempts, retryQueue, pendingSpawn,
                  task, resolved, buf, db, progress, writeLog, written, skipped,
                  spawnCount, handed, sinkFailed >>
  /\ UNCHANGED auxVars

\* The rows of block h are all committed.
RowsCommitted(h) == \A t \in chain[h] : h \in db[t]

\* main: the start height.  With resume, last_height + 1 when the progress
\* row exists; otherwise cfg.from.
StartFrom(resume, last) ==
  IF resume /\ last # NoProgress THEN last + 1 ELSE CfgFrom

\* The indexer is started again, with the same progress id, with or without
\* resume.  Whatever the ended process held in memory is gone.
Restart(resume) ==
  /\ proc \in {"exit0", "exit1"}
  /\ run < MaxRuns
  /\ run' = run + 1
  /\ FreshRun(StartFrom(resume, progress))
  /\ handed' = {h \in handed : ~RowsCommitted(h)}
  /\ UNCHANGED << chain, mode, db, progress, auxVars >>

Next ==
  \/ MaybeSpawn
  \/ \E h \in Heights, ok \in BOOLEAN : ProcessHeight(h, ok)
  \/ \E c \in Callers : SinkStepOk(c)
  \/ \E c \in Callers : SinkStepFail(c)
  \/ \E c \in Callers : SinkRollback(c)
  \/ MainFlush
  \/ Restart(TRUE)

Spec == Init /\ [][Next]_vars

\* The handlers of SIGINT and SIGTERM: a log line, then process.exit(0).
\* The process ends at once with everything it holds in memory: the
\* buffers, the blocks in ready, the sink operations in flight.
Signal ==
  /\ proc \in {"sync", "flush", "close"}
  /\ proc' = "killed"
  /\ UNCHANGED << chain, mode, run, from, nextHeight, inFlight, ready,
                  nextToFlush, processed, attempts, retryQueue, pendingSpawn,
                  task, resolved, buf, op, db, progress, writeLog, written,
                  skipped, spawnCount, handed, flushSnap, sinkFailed >>
  /\ UNCHANGED auxVars

\* The runs of Spec in which a signal may arrive at any time.
SignalNext == Next \/ Signal

SignalSpec == Init /\ [][SignalNext]_vars

\* main: the object it passes to createSink.  The configured mode is in
\* pg.mode; main sets no pgMode field.
MainSinkConfig(m) == [ kind |-> "postgres", pg |-> [mode |-> m] ]

\* createSink: mode: (cfg as any).pgMode ?? 'batch-insert'
CreateSinkMode(cfg) ==
  IF "pgMode" \in DOMAIN cfg THEN cfg.pgMode ELSE "batch-insert"

\* main started with either configured mode: the sink is the one
\* createSink makes of main's object.
MainInit ==
  /\ chain \in [Heights -> Profiles]
  /\ \E m \in PgModes :
       /\ pgMode = m
       /\ mode = CreateSinkMode(MainSinkConfig(m))
  /\ CoreStart
  /\ RpcInit
  /\ BootParked
  /\ PoolParked
  /\ FollowParked
  /\ TxnInit
  /\ UpsertParked
  /\ ExtractParked
  /\ LateParked

\* The runs of the whole program, from main's configuration on.
MainSpec == MainInit /\ [][Next]_vars

\* The runs of Spec, and runs started without resume: with an explicit
\* `from` and resume off, main starts at cfg.from whatever the progress row
\* says.
RerunNext ==
  \/ Next
  \/ Restart(FALSE)

RerunSpec == Init /\ [][RerunNext]_vars

\* The runs in which no SQL round trip fails and the process is not
\* restarted.  Every awaited step ends: the fetch, decode and assemble steps
\* succeed, fail or time out (withTimeout), the SQL round trips are
\* answered, and the event loop runs every setImmediate callback.
NextOk ==
  \/ MaybeSpawn
  \/ \E h \in Heights, ok \in BOOLEAN : ProcessHeight(h, ok)
  \/ \E c \in Callers : SinkStepOk(c)
  \/ MainFlush

FairSpec == Init /\ [][NextOk]_vars /\ WF_vars(NextOk)

(* ------------------ syncRange: abandoned attempts -------------------- *)

\* mutant of ReadyAfterLate: the late result is stored like a fresh one
ReadyAfterLateSet(rd, h, obj) == MapPut(rd, h, obj)

\* withTimeout: Promise.race has settled with the rejection of the timer,
\* so the value the step settles with later goes nowhere; processHeight has
\* left its try block and never reaches ready.set for that attempt.
ReadyAfterLate(rd, h, obj) == rd

\* withTimeout rejects for a step of height h: the attempt ends as a failed
\* one (catch, finally), and the step it waited for goes on by itself.
AttemptTimesOut(h) ==
  /\ AttemptEnds(h, FALSE)
  /\ late' = late \cup {h}
  /\ UNCHANGED auxButLate

\* The step of an abandoned attempt of height h settles.
LateSettles(h) ==
  /\ Alive
  /\ h \in late
  /\ late' = late \ {h}
  /\ ready' = ReadyAfterLate(ready, h, Assembled(chain[h]))
  /\ UNCHANGED << chain, mode, run, proc, from, nextHeight, inFlight,
                  nextToFlush, processed, attempts, retryQueue, pendingSpawn,
                  task, resolved, buf, op, db, progress, writeLog, written,
                  skipped, spawnCount, handed, flushSnap, sinkFailed >>
  /\ UNCHANGED auxButLate

\* One run of syncRange on main's sink, with the timeouts told apart from
\* the other failures of an attempt.
TimeoutNext ==
  \/ MaybeSpawn
  \/ \E h \in Heights, ok \in BOOLEAN : ProcessHeight(h, ok)
  \/ \E h \in Heights : AttemptTimesOut(h)
  \/ \E h \in Heights : LateSettles(h)
  \/ \E c \in Callers : SinkStepOk(c)
  \/ \E c \in Callers : SinkStepFail(c)
  \/ \E c \in Callers : SinkRollback(c)
  \/ MainFlush

TimeoutInit ==
  /\ chain \in [Heights -> Profiles]
  /\ mode = "batch-insert"
  /\ CoreStart
  /\ AuxParked

TimeoutSpec == TimeoutInit /\ [][TimeoutNext]_vars

(* --------------------- RPC client: getJson, take ---------------------- *)

\* getJson: the head of one loop iteration, `await bucket.take(1)`, at time
\* now.  With enough tokens take returns at once and fetch starts; with too
\* few it sets its timer.  r is the call so far.
BeginAttempt(c, r) ==
  LET b == Refill(bucket, now)
  IN IF HasTokens(b, 1)
     THEN /\ bucket' = [b EXCEPT !.tokens = @ - OneToken]
          /\ rpc' = [rpc EXCEPT ![c] =
                       [r EXCEPT !.pc = "fetch", !.wakeAt = 0,
                                 !.takes = @ + 1, !.tries = @ + 1]]
          /\ started' = [started EXCEPT ![1] = @ + 1]
     ELSE /\ bucket' = b
          /\ rpc' = [rpc EXCEPT ![c] =
                       [r EXCEPT !.pc = "take",
                                 !.wakeAt = now + WaitTicks(b, 1)]]
          /\ UNCHANGED started

\* A caller calls getJson (fetchBlock, fetchBlockResults, fetchStatus).
GetJson(c) ==
  /\ rpc[c].pc \in {"idle", "done", "failed"}
  /\ BeginAttempt(c, IdleCall)
  /\ UNCHANGED << now, restOfRpc >>

\* take: the timer fires; take refills, deducts and returns, and fetch
\* starts.
TakeWake(c) ==
  /\ rpc[c].pc = "take"
  /\ now >= rpc[c].wakeAt
  /\ bucket' = TakeAfterWait(bucket, 1, now)
  /\ rpc' = [rpc EXCEPT ![c].pc = "fetch", ![c].wakeAt = 0,
                        ![c].takes = @ + 1, ![c].tries = @ + 1]
  /\ started' = [started EXCEPT ![1] = @ + 1]
  /\ UNCHANGED << now, restOfRpc >>

\* getJson: the attempt ends with outcome o.
Response(c, o) ==
  /\ rpc[c].pc = "fetch"
  /\ LET r == [rpc[c] EXCEPT !.outcome = o]
         retry == (IsRetryStatus(o) \/ IsTransient(o)) /\ CanRetry(r.attempt)
     IN rpc' = [rpc EXCEPT ![c] =
                  IF o = "ok" THEN [r EXCEPT !.pc = "done"]
                  ELSE IF retry
                  THEN [r EXCEPT !.pc = "backoff",
                                 !.wakeAt = now + Delay(r.attempt)]
                  ELSE [r EXCEPT !.pc = "failed"]]
  /\ UNCHANGED << now, bucket, started, restOfRpc >>

\* getJson: the backoff sleep ends; attempt++ and the next iteration.
BackoffWake(c) ==
  /\ rpc[c].pc = "backoff"
  /\ now >= rpc[c].wakeAt
  /\ BeginAttempt(c, [rpc[c] EXCEPT !.attempt = @ + 1])
  /\ UNCHANGED << now, restOfRpc >>

\* Time passes once every due timer has fired.
Tick ==
  /\ now < MaxTime
  /\ \A c \in RpcCallers :
       rpc[c].pc \in {"take", "backoff"} => now < rpc[c].wakeAt
  /\ now' = now + 1
  /\ started' = <<0>> \o SubSeq(started, 1, TicksPerSec - 1)
  /\ UNCHANGED << bucket, rpc, restOfRpc >>

\* getJson calls whose attempts end in every way, by a few callers.
RetryCallers == 1..NumRetryCallers

RpcNext ==
  \/ \E c \in RetryCallers : GetJson(c)
  \/ \E c \in RetryCallers : TakeWake(c)
  \/ \E c \in RetryCallers, o \in Outcomes : Response(c, o)
  \/ \E c \in RetryCallers : BackoffWake(c)
  \/ Tick

\* The RPC client after createRpcClient, nothing else running.
RpcClientInit ==
  /\ CoreParked
  /\ LateParked
  /\ PgModeParked
  /\ ExtractParked
  /\ UpsertParked
  /\ TxnInit
  /\ RpcInit
  /\ BootParked
  /\ PoolParked
  /\ FollowParked

RpcSpec == RpcClientInit /\ [][RpcNext]_vars

\* getJson calls that all succeed, by every caller: the load on the bucket.
BucketNext ==
  \/ \E c \in RpcCallers : GetJson(c)
  \/ \E c \in RpcCallers : TakeWake(c)
  \/ \E c \in RpcCallers : Response(c, "ok")
  \/ Tick

BucketSpec == RpcClientInit /\ [][BucketNext]_vars

(* ------------------ getConfig and main: the range -------------------- *)

\* getConfig and ConfigSchema: to < from is rejected when both are given.
ConfigRejected(c) == c.from # Undefined /\ c.to # Undefined /\ c.to < c.from

\* main: wantResume (cfg.from is a number or undefined)
WantResume(c) == c.from = Undefined \/ c.resume

\* main: explicitFrom
ExplicitFrom(c) == IF c.from # Undefined THEN c.from ELSE c.firstBlock

\* main: startFrom after the resume block; Undefined when it stays
\* undefined
ResolveStartFrom(c) ==
  IF WantResume(c) /\ c.sinkKind = "postgres"
  THEN IF c.last # NoProgress THEN c.last + 1
       ELSE IF ExplicitFrom(c) # Undefined THEN ExplicitFrom(c)
       ELSE c.earliest
  ELSE c.from

\* main: endHeight
ResolveEndHeight(c) == IF c.to = Undefined THEN c.latest ELSE c.to

\* getConfig: parse, check and validateConfig.
GetConfig ==
  /\ boot.pc = "getConfig"
  /\ boot' = [boot EXCEPT !.pc = IF ConfigRejected(boot.cfg) THEN "rejected"
                                  ELSE "main"]
  /\ UNCHANGED restOfBoot

\* main from fetchStatus to the call of syncRange: it throws when startFrom
\* is unresolved and otherwise starts the range runner.
ResolveRange ==
  /\ boot.pc = "main"
  /\ LET s == ResolveStartFrom(boot.cfg)
         e == ResolveEndHeight(boot.cfg)
     IN boot' = [boot EXCEPT !.startFrom = s, !.endHeight = e,
                             !.pc = IF s = Undefined \/ e = Undefined
                                    THEN "rejected" ELSE "syncRange"]
  /\ UNCHANGED restOfBoot

BootNext == GetConfig \/ ResolveRange

\* The process is started with any configuration, progress row and node
\* status.
BootInit ==
  /\ CoreParked
  /\ LateParked
  /\ PgModeParked
  /\ ExtractParked
  /\ UpsertParked
  /\ TxnInit
  /\ RpcInit
  /\ PoolParked
  /\ FollowParked
  /\ boot \in {BootStart(i) : i \in BootInputs}

BootSpec == BootInit /\ [][BootNext]_vars


(* ------------------------------ claims -------------------------------- *)

Range == from..To

\* The tasks of the run: heights with a processHeight call that has not
\* returned.
Running == {h \in Heights : task[h] # "idle"}

\* C1: the heights passed to sink.write in one syncRange run are strictly
\* ascending, and when sink.write is invoked for a height, every earlier
\* invocation has returned and no other sink operation is in progress.
C1_WritesAscending ==
  \A j \in 1..Len(writeLog) :
    /\ ~writeLog[j].busy
    /\ \A i \in 1..(j - 1) :
         /\ writeLog[i].height < writeLog[j].height
         /\ writeLog[i].height \in writeLog[j].returned

\* C1 witness: the second write of the run waits for the COMMIT of its
\* flush while a later height, completed out of order, waits in ready.
C1_Witness ==
  /\ Len(writeLog) >= 2
  /\ \E h \in DOMAIN ready : h > nextToFlush
  /\ \E c \in Heights : op[c].pc = "commit" /\ op[c].h = nextToFlush

\* C2 as claimed: no height above `from` is handed to the sink before the
\* block row of the height below it is committed.
C2_PrevCommitted ==
  \A j \in 1..Len(writeLog) :
    writeLog[j].height > from => writeLog[j].prevCommitted

\* C2 as amended: no height h above `from` is handed to the sink before
\* h - 1 was either skipped or accepted by the sink (its sink.write
\* returned); in block-atomic mode an accepted h - 1 is committed.
C2_PrevWrittenOrSkipped ==
  \A j \in 1..Len(writeLog) :
    LET h == writeLog[j].height
    IN h > from =>
         /\ (h - 1) \in (writeLog[j].returned \cup writeLog[j].passed)
         /\ mode = "block-atomic" =>
              (writeLog[j].prevCommitted \/ (h - 1) \in writeLog[j].passed)

\* C2 witness: a height was handed to the sink right behind a skipped one,
\* and another right behind a height that is buffered and not committed.
C2_Witness ==
  /\ \E j \in 1..Len(writeLog) :
       writeLog[j].height > from /\ (writeLog[j].height - 1) \in writeLog[j].passed
  /\ \E j \in 1..Len(writeLog) :
       /\ (writeLog[j].height - 1) \in writeLog[j].returned
       /\ ~writeLog[j].prevCommitted

\* C3: over runs that resume (each started at last_height + 1 when a
\* progress row existed), whenever progress.last_height = p is committed,
\* every height <= p whose sink.write returned (in this or an earlier run,
\* and that no later pass skipped) has all its rows committed: a restart at
\* p + 1 leaves no written height behind.
C3_ResumeLosesNoData ==
  progress # NoProgress =>
    \A h \in handed : h <= progress => RowsCommitted(h)

\* C3 witness: a restarted process meets a progress row that covers the
\* committed heights of an earlier run, while a later height that the earlier
\* run had only buffered was lost with the failed process.
C3_Witness ==
  /\ run > 1
  /\ progress # NoProgress
  /\ \E h \in Heights \ written : h <= progress /\ RowsCommitted(h)
  /\ \E h \in handed \ written : h > progress

\* C4: when flushAll throws, every buffer holds what it held when the flush
\* began (the process is then in its exit path with the buffers as flushAll
\* left them).
C4_BuffersIntactOnFailure ==
  (mode = "batch-insert" /\ proc = "exit1") => buf = flushSnap

\* C5: in every committed state the block row of a height is present only
\* together with every row derived from that block.
C5_BlockAtomicity ==
  \A h \in Heights : h \in db["blocks"] => RowsCommitted(h)

\* C5 witness: a transaction holding rows of a block with transactions is
\* rolled back while an earlier block with transactions is committed.
C5_Witness ==
  /\ \E c \in Callers : op[c].pc = "rollback" /\ (\E r \in op[c].txn : r[1] = "txs")
  /\ \E h \in Heights : h \in db["blocks"] /\ chain[h] # {"blocks"}

\* C6: a failed sink.write is never swallowed: the process then ends in
\* failure, syncRange does not resolve with a height of its range neither
\* written nor skipped, and nextToFlush never passes such a height.
C6_WriteErrorNotSwallowed ==
  /\ sinkFailed => proc = "exit1"
  /\ resolved => \A h \in Range : h \in written \cup skipped
  /\ \A h \in Range : h < nextToFlush => h \in written \cup skipped

\* C7: when every fetch / decode / assemble step ends and every sink.write
\* returns, syncRange eventually returns, and from then on nextHeight > to,
\* the retry queue and ready are empty, inFlight = 0, nextToFlush = to + 1
\* and processed = to - from + 1, every height written or skipped.
C7_Terminates ==
  /\ <>resolved
  /\ [](resolved =>
          /\ nextHeight > To
          /\ retryQueue = <<>>
          /\ ready = EmptyMap
          /\ inFlight = 0
          /\ nextToFlush = To + 1
          /\ processed = To - from + 1
          /\ \A h \in Range : h \in written \cup skipped)

\* C7 witness: syncRange has returned from a run in which a height was
\* retried, one was skipped and one was written.
C7_Witness ==
  /\ resolved
  /\ skipped # {}
  /\ written # {}
  /\ \E h \in written : attempts[h] > 0

\* C8: a height is attempted at most maxBlockRetries + 1 times in a run;
\* every failed attempt is counted; a height sits in the retry queue only
\* with 1..maxBlockRetries failures; a skip marker appears only with failure
\* number maxBlockRetries + 1; a written height is never skipped.
C8_RetryBudget ==
  /\ \A h \in Heights :
       /\ spawnCount[h] <= MaxBlockRetries + 1
       /\ attempts[h] <= spawnCount[h]
       /\ spawnCount[h] - attempts[h] <= 1
       /\ task[h] = "fetch" => attempts[h] = spawnCount[h] - 1
       /\ (h \in written \/ (\E j \in 1..Len(writeLog) : writeLog[j].height = h)
           \/ (h \in DOMAIN ready /\ ~ready[h].skip))
            => (attempts[h] = spawnCount[h] - 1 /\ attempts[h] <= MaxBlockRetries)
       /\ (h \in skipped \/ (h \in DOMAIN ready /\ ready[h].skip))
            => (attempts[h] = MaxBlockRetries + 1 /\ spawnCount[h] = attempts[h])
  /\ \A i \in 1..Len(retryQueue) :
       /\ attempts[retryQueue[i]] \in 1..MaxBlockRetries
       /\ attempts[retryQueue[i]] = spawnCount[retryQueue[i]]
  /\ written \cap skipped = {}

\* C8 witness: one height was skipped and another was written on its last
\* permitted attempt.
C8_Witness ==
  /\ skipped # {}
  /\ \E h \in written : attempts[h] = MaxBlockRetries

\* C9: a height that used up its retries does not block the pipeline:
\* sink.write is never invoked for it, the heights behind it are written in
\* order, and when the range is done and a later height was written,
\* progress.last_height is above the skipped height.
C9_SkipDoesNotBlock ==
  /\ \A j \in 1..Len(writeLog) : writeLog[j].height \notin skipped
  /\ \A h \in skipped : h < nextToFlush
  /\ \A i, j \in 1..Len(writeLog) : i < j => writeLog[i].height < writeLog[j].height
  /\ (run = 1 /\ proc = "exit0") =>
       \A h \in skipped : (\E h2 \in written : h2 > h) => progress > h

\* C10: the number of heights in flight (processHeight called and not yet
\* returned, its trailing tryFlush included) never exceeds `concurrency`.
C10_InFlightBounded ==
  /\ inFlight <= Concurrency
  /\ inFlight = Cardinality(Running)

\* C10 witness: `concurrency` heights are in flight, one of them in its
\* trailing tryFlush, while a further height waits to be spawned.
C10_Witness ==
  /\ inFlight = Concurrency
  /\ \E h \in Heights : task[h] = "write"
  /\ (nextHeight <= To \/ retryQueue # <<>>)

\* C11: progress.last_height never decreases, within a run and across runs
\* that share the progress id, however each run is started.
C11_ProgressMonotonic == [][progress' >= progress]_vars

\* C12: progress.last_height is at most the highest height whose rows are
\* committed, in every state, those after a rolled back flush included.
C12_ProgressAtMostCommitted ==
  progress # NoProgress =>
    \E h \in Heights : h >= progress /\ h \in db["blocks"] /\ RowsCommitted(h)

\* C12 witness: a flush whose transaction already holds a progress row above
\* the committed one is being rolled back.
C12_Witness ==
  /\ progress # NoProgress
  /\ \E c \in Callers : op[c].pc = "rollback" /\ op[c].prog > progress

\* C13: in both sink modes, when the transaction holding the block row of h
\* commits, progress.last_height >= h from that commit on.
C13_ProgressWithCommit ==
  [][\A c \in Callers :
       (op[c].pc = "commit" /\ op'[c].pc \notin {"commit", "rollback"} /\ run' = run) =>
         \A r \in op[c].txn : r[1] = "blocks" => progress' >= r[2]]_vars

(* ------------- createTxDecodePool, txWorker, processHeight ------------ *)

\* processHeight: Promise.all over the decodes, then the assembly.  The
\* block is caught by the catch block on the first rejected decode, and
\* assembled once every decode has resolved.
Settle(b, s, cause) ==
  IF b.st # "decoding" THEN b
  ELSE IF \E i \in Txs : s[i] = "rejected"
  THEN [st |-> "caught", cause |-> cause]
  ELSE IF \A i \in Txs : s[i] = "resolved"
  THEN [st |-> "assembled", cause |-> "none"]
  ELSE b

\* Worker w posts `ready`; its handler marks it ready and idle once.
WorkerReady(w) ==
  /\ wk[w] = "init"
  /\ wk' = [wk EXCEPT ![w] = "up"]
  /\ IF ShouldMarkReady(readyFlags[w])
     THEN /\ readyFlags' = [readyFlags EXCEPT ![w] = TRUE]
          /\ idle' = Append(idle, w)
     ELSE UNCHANGED << readyFlags, idle >>
  /\ UNCHANGED << pending, jobs, sub, blk, restOfPool >>

\* The init timer of worker w fires before its `ready` has arrived.
InitTimeout(w) ==
  /\ wk[w] = "init"
  /\ ~readyFlags[w]
  /\ readyFlags' = [readyFlags EXCEPT ![w] = TRUE]
  /\ idle' = Append(idle, w)
  /\ UNCHANGED << pending, wk, jobs, sub, blk, restOfPool >>

\* Worker w's thread dies with an error: the error handler marks a worker
\* that was not ready as ready and idle, and rejects every pending decode.
WorkerError(w) ==
  /\ wk[w] # "dead"
  /\ wk' = [wk EXCEPT ![w] = "dead"]
  /\ jobs' = [jobs EXCEPT ![w] = {}]
  /\ IF ShouldMarkReady(readyFlags[w])
     THEN /\ readyFlags' = [readyFlags EXCEPT ![w] = TRUE]
          /\ idle' = Append(idle, w)
     ELSE UNCHANGED << readyFlags, idle >>
  /\ LET s == [i \in Txs |->
                IF \E id \in DOMAIN pending : pending[id] = i
                THEN "rejected" ELSE sub[i]]
     IN /\ sub' = s
        /\ blk' = Settle(blk, s, "workerError")
  /\ pending' = EmptyMap
  /\ UNCHANGED << restOfPool >>

\* processHeight calls pool.submit for every transaction of the block;
\* each call waits for every worker to be ready and for an idle worker.
Submit ==
  /\ blk.st = "decoding"
  /\ \A i \in Txs : sub[i] = "new"
  /\ sub' = [i \in Txs |-> "waiting"]
  /\ UNCHANGED << readyFlags, idle, pending, wk, jobs, blk, restOfPool >>

\* submit: an idle worker is there; the call takes the head of idle, draws
\* a message id, registers the promise and posts the decode message.  A
\* dead worker's message is dropped.
Assign(i, id) ==
  /\ sub[i] = "waiting"
  /\ \A w \in Workers : readyFlags[w]
  /\ Len(idle) > 0
  /\ LET w == Head(idle)
     IN /\ idle' = Tail(idle)
        /\ pending' = MapPut(pending, id, i)
        /\ jobs' = IF wk[w] = "dead" THEN jobs
                   ELSE [jobs EXCEPT ![w] = @ \cup {<< id, i >>}]
  /\ sub' = [sub EXCEPT ![i] = "assigned"]
  /\ UNCHANGED << readyFlags, wk, blk, restOfPool >>

\* Worker w answers the decode message j (onDecode) of a transaction of
\* kind k, and the pool's message handler settles the promise registered
\* under the message's id.
WorkerReply(w, j, k) ==
  /\ wk[w] # "dead"
  /\ j \in jobs[w]
  /\ jobs' = [jobs EXCEPT ![w] = @ \ {j}]
  /\ IF j[1] \in DOMAIN pending
     THEN LET i == pending[j[1]]
              s == [sub EXCEPT ![i] =
                      IF DecodeOk(k) THEN "resolved" ELSE "rejected"]
          IN /\ pending' = MapRemove(pending, j[1])
             /\ idle' = Append(idle, w)
             /\ sub' = s
             /\ blk' = Settle(blk, s, "decodeError")
     ELSE UNCHANGED << pending, idle, sub, blk >>
  /\ UNCHANGED << readyFlags, wk, restOfPool >>

PoolNext ==
  \/ \E w \in Workers : WorkerReady(w)
  \/ \E w \in Workers : InitTimeout(w)
  \/ \E w \in Workers : WorkerError(w)
  \/ Submit
  \/ \E i \in Txs, id \in Ids : Assign(i, id)
  \/ \E w \in Workers, k \in TxKinds : \E j \in jobs[w] : WorkerReply(w, j, k)

\* The pool is created and processHeight has a block to decode.
PoolInit ==
  /\ CoreParked
  /\ LateParked
  /\ PgModeParked
  /\ ExtractParked
  /\ UpsertParked
  /\ TxnInit
  /\ RpcInit
  /\ BootParked
  /\ FollowParked
  /\ PoolStart

PoolSpec == PoolInit /\ [][PoolNext]_vars

(* ------------------------ main: follow, followLoop -------------------- *)

\* A follow loop that starts its next range at the end of the last one.
NextAfterSame(to) == to

\* followLoop: next = to + 1
NextAfter(to) == to + 1

\* followLoop: the concurrency of a live range
FollowConcurrency(c) == Min(c, FollowMaxConcurrency)

\* main: after the backfill it enters followLoop at endHeight + 1 unless
\* cfg.follow is false; else it goes on to close the pool and the sink.
FollowEnter ==
  /\ fl.pc = "main"
  /\ fl' = IF fl.follow
           THEN [fl EXCEPT !.pc = "poll", !.next = fl.endHeight + 1]
           ELSE [fl EXCEPT !.pc = "closing"]
  /\ UNCHANGED restOfFollow

\* followLoop: fetchStatus returns latest_block_height l.  With
\* next <= latest the loop calls syncRange on [next, latest]; else it sleeps.
FetchStatus(l) ==
  /\ fl.pc = "poll"
  /\ fl' = IF fl.next <= l
           THEN [fl EXCEPT !.pc = "sync", !.latest = l,
                           !.ranges = Append(@,
                              [ from |-> fl.next, to |-> l, latest |-> l,
                                concurrency |->
                                  FollowConcurrency(fl.concurrency) ])]
           ELSE [fl EXCEPT !.pc = "sleep", !.latest = l]
  /\ UNCHANGED restOfFollow

\* followLoop: syncRange returns; next = to + 1, then `await sink.flush()`.
SyncReturns ==
  /\ fl.pc = "sync"
  /\ fl' = [fl EXCEPT !.pc = "flush",
                      !.next = NextAfter(fl.ranges[Len(fl.ranges)].to)]
  /\ UNCHANGED restOfFollow

\* followLoop: syncRange or sink.flush throws; followLoop and main reject
\* and the process exits with 1.
FollowThrows ==
  /\ fl.pc \in {"sync", "flush"}
  /\ fl' = [fl EXCEPT !.pc = "exit1"]
  /\ UNCHANGED restOfFollow

\* followLoop: sink.flush returns; the next iteration.
FlushReturns ==
  /\ fl.pc = "flush"
  /\ fl' = [fl EXCEPT !.pc = "poll", !.flushes = @ + 1]
  /\ UNCHANGED restOfFollow

\* followLoop: the poll sleep ends; the next iteration.
FollowWake ==
  /\ fl.pc = "sleep"
  /\ fl' = [fl EXCEPT !.pc = "poll"]
  /\ UNCHANGED restOfFollow

FollowNext ==
  \/ FollowEnter
  \/ \E l \in 1..MaxLatest : FetchStatus(l)
  \/ SyncReturns
  \/ FollowThrows
  \/ FlushReturns
  \/ FollowWake

\* The backfill has returned, for any end of its range, cfg.follow and
\* cfg.concurrency.
FollowInit ==
  /\ CoreParked
  /\ LateParked
  /\ PgModeParked
  /\ ExtractParked
  /\ UpsertParked
  /\ TxnInit
  /\ RpcInit
  /\ BootParked
  /\ PoolParked
  /\ \E e \in CfgFrom..(MaxLatest - 1), f \in BOOLEAN,
        c \in {Concurrency, FollowMaxConcurrency, FollowMaxConcurrency + 1} :
       fl = FollowStart(e, f, c)

FollowSpec == FollowInit /\ [][FollowNext]_vars

(* ------------- persistBlockAtomic and flushAll on the store ------------- *)

\* mutant of LoopGoesOn: the last base is left out
LoopStopsEarly(base, endBase) == base < endBase

\* ensureCorePartitions: for (base = startBase; base <= endBase; base += STEP)
LoopGoesOn(base, endBase) == base <= endBase

\* mutant of LockFree: the lock is granted whoever holds it
LockFreeAlways(s) == TRUE

\* pg_advisory_lock returns when no other session holds the lock
LockFree(s) == lock \in {NoSession, s}

\* createRangePartition: CREATE TABLE IF NOT EXISTS ..._p<base>
CreateRangePartition(ps, base) ==
  IF base \in ps THEN ps ELSE ps \cup {base}

\* persistBlockAtomic of a block at height h: takes a connection and sends
\* SELECT pg_advisory_lock (ensureCorePartitions of one height).
BeginAtomic(s, h) ==
  /\ sess[s].pc = "idle"
  /\ sess' = [sess EXCEPT ![s] =
       [ IdleSession EXCEPT !.pc = "lockWait", !.kind = "atomic",
                            !.minH = h, !.maxH = h, !.acquired = 1 ]]
  /\ UNCHANGED << lock, parts, restOfTxn >>

\* flushAll with buffered rows: takes a connection; when no row has a finite
\* height it releases the client and returns from inside the try, whose
\* finally releases the client again; otherwise it sends
\* SELECT pg_advisory_lock (ensureCorePartitions of minH..maxH).
BeginFlushAll(s, lo, hi, finite) ==
  /\ sess[s].pc = "idle"
  /\ lo <= hi
  /\ finite \/ (lo = 0 /\ hi = 0)
  /\ sess' = [sess EXCEPT ![s] =
       IF finite
       THEN [ IdleSession EXCEPT !.pc = "lockWait", !.kind = "flushAll",
                                 !.minH = lo, !.maxH = hi, !.acquired = 1 ]
       ELSE [ IdleSession EXCEPT !.pc = "failed", !.kind = "flushAll",
                                 !.finite = FALSE,
                                 !.acquired = 1, !.released = 2 ]]
  /\ UNCHANGED << lock, parts, restOfTxn >>

\* pg_advisory_lock is granted; the loop starts at startBase.
AcquireLock(s) ==
  /\ sess[s].pc = "lockWait"
  /\ LockFree(s)
  /\ lock' = s
  /\ sess' = [sess EXCEPT ![s].pc = "ddl",
                          ![s].base = PartBase(sess[s].minH)]
  /\ UNCHANGED << parts, restOfTxn >>

\* One turn of the loop: the partitions of every range table at base; after
\* the last turn the finally block sends pg_advisory_unlock.
DdlStep(s) ==
  /\ sess[s].pc = "ddl"
  /\ IF LoopGoesOn(sess[s].base, PartBase(sess[s].maxH))
     THEN /\ parts' = CreateRangePartition(parts, sess[s].base)
          /\ sess' = [sess EXCEPT ![s].base = @ + PartStep]
          /\ UNCHANGED lock
     ELSE /\ lock' = NoSession
          /\ sess' = [sess EXCEPT ![s].pc = "begin"]
          /\ UNCHANGED parts
  /\ UNCHANGED restOfTxn

\* BEGIN, the INSERT statements of the operation and COMMIT, then the
\* finally block releases the client.
Transaction(s) ==
  /\ sess[s].pc = "begin"
  /\ sess' = [sess EXCEPT ![s] =
       [ IdleSession EXCEPT !.pc = "done", !.kind = sess[s].kind,
                            !.inserted = TRUE,
                            !.acquired = 1, !.released = 1 ]]
  /\ UNCHANGED << lock, parts, restOfTxn >>

\* mutant of UnlockInFinally: a failed statement leaves the lock as it is
UnlockSkipped(s) == lock

\* The finally block of ensureCorePartitions, entered once the lock is
\* granted: SELECT pg_advisory_unlock.
UnlockInFinally(s) == IF lock = s THEN NoSession ELSE lock

\* A statement fails: the finally of ensureCorePartitions unlocks when the
\* lock is held, the catch sends ROLLBACK, the finally releases the client.
StatementFails(s) ==
  /\ sess[s].pc \in {"lockWait", "ddl", "begin"}
  /\ lock' = UnlockInFinally(s)
  /\ sess' = [sess EXCEPT ![s] =
       [ IdleSession EXCEPT !.pc = "failed", !.kind = sess[s].kind,
                            !.acquired = 1, !.released = 1 ]]
  /\ UNCHANGED << parts, restOfTxn >>

TxnNext ==
  \E s \in Sessions :
    \/ \E h \in 0..MaxPartHeight : BeginAtomic(s, h)
    \/ \E lo, hi \in 0..MaxPartHeight, f \in BOOLEAN :
         BeginFlushAll(s, lo, hi, f)
    \/ AcquireLock(s)
    \/ DdlStep(s)
    \/ Transaction(s)
    \/ StatementFails(s)

TxnStart ==
  /\ CoreParked
  /\ LateParked
  /\ PgModeParked
  /\ ExtractParked
  /\ UpsertParked
  /\ RpcInit
  /\ BootParked
  /\ PoolParked
  /\ FollowParked
  /\ TxnInit

TxnSpec == TxnStart /\ [][TxnNext]_vars

(* ------------------ flushers: INSERT ... ON CONFLICT ------------------ *)

\* mutant of UpdateSet: the column accumulates
UpdateSetSum(old, new) == old + new

\* DO UPDATE SET col = EXCLUDED.col
UpdateSet(old, new) == new

\* DO UPDATE SET col = COALESCE(EXCLUDED.col, table.col)
CoalesceSet(old, new) == IF new # Null THEN new ELSE old

\* The column of the row with a conflicting key after the conflict action.
OnConflict(policy, old, new) ==
  IF policy = "nothing" THEN old
  ELSE IF policy = "update" THEN UpdateSet(old, new)
  ELSE CoalesceSet(old, new)

\* One multi-row INSERT ... ON CONFLICT, from row i of the batch on: st is
\* the table so far, touched the keys the statement has inserted or
\* updated.  DO NOTHING skips a row whose key exists; DO UPDATE fails the
\* statement when it meets a key it has touched itself
\* (ok = FALSE, the statement changes nothing).
RECURSIVE InsertRows(_, _, _, _, _)
InsertRows(policy, batch, i, st, touched) ==
  IF i > Len(batch) THEN [ok |-> TRUE, store |-> st]
  ELSE LET r == batch[i]
       IN IF st[r.k] = Absent
          THEN InsertRows(policy, batch, i + 1, [st EXCEPT ![r.k] = r.u],
                          touched \cup {r.k})
          ELSE IF policy = "nothing"
          THEN InsertRows(policy, batch, i + 1, st, touched)
          ELSE IF r.k \in touched
          THEN [ok |-> FALSE, store |-> st]
          ELSE InsertRows(policy, batch, i + 1,
                          [st EXCEPT ![r.k] = OnConflict(policy, @, r.u)],
                          touched \cup {r.k})

\* execBatchedInsert: the table after the statement.
ExecBatchedInsert(policy, store, batch) ==
  LET res == InsertRows(policy, batch, 1, store, {})
  IN IF res.ok THEN res.store ELSE store

\* The table holds every row of the batch as it is.
HoldsBatch(store, batch) ==
  \A i \in 1..Len(batch) : store[batch[i].k] = batch[i].u

\* A flusher sends the batch to the table (once more).
FlushBatch ==
  /\ tb.n < MaxRuns
  /\ \E st \in {ExecBatchedInsert(tb.policy, tb.store, tb.batch)} :
       tb' = [tb EXCEPT !.n = @ + 1, !.store = st, !.prev = tb.store,
                        !.had = HoldsBatch(tb.store, tb.batch),
                        !.once = IF tb.n = 0 THEN st ELSE @]
  /\ UNCHANGED restOfUpsert

UpsertNext == FlushBatch

UpsertInit ==
  /\ CoreParked
  /\ LateParked
  /\ PgModeParked
  /\ ExtractParked
  /\ RpcInit
  /\ BootParked
  /\ PoolParked
  /\ FollowParked
  /\ TxnInit
  /\ \E policy \in Policies, store \in Stores, batch \in Batches :
       tb = TableStart(policy, store, batch)

UpsertSpec == UpsertInit /\ [][UpsertNext]_vars

(* ----------------- execBatchedInsert: the sub-batches ----------------- *)

\* One call of execBatchedInsert: its rows (named by their positions), the
\* number of columns, the two caps of opts, the loop index i, the
\* statements handed to client.query so far, and the position in the code.
SplitStart(n, cols, maxRows, maxParams) ==
  [ rows |-> [j \in 1..n |-> j], cols |-> cols, maxRows |-> maxRows,
    maxParams |-> maxParams, i |-> 0, sent |-> << >>, pc |-> "call" ]

\* The break of the inner loop, with `>` in place of `>=` on the row cap.
SliceBreakLate(count, nextParams, maxRows, maxParams) ==
  count > maxRows \/ nextParams > maxParams

\* The break of the inner loop: the slice is full, or one more row would
\* carry it over the placeholder cap.
SliceBreak(count, nextParams, maxRows, maxParams) ==
  count >= maxRows \/ nextParams > maxParams

\* The inner while loop: the number of rows of the slice starting at i.
RECURSIVE SliceCount(_, _, _, _)
SliceCount(c, i, count, params) ==
  IF /\ i + count < Len(c.rows)
     /\ ~SliceBreak(count, params + c.cols, c.maxRows, c.maxParams)
  THEN SliceCount(c, i, count + 1, params + c.cols)
  ELSE count

\* makeMultiInsert: one tuple per row, one placeholder (and one value) per
\* column of each row.
MakeMultiInsert(cols, slice) ==
  [ rows |-> slice, values |-> cols * Len(slice) ]

\* The entry of execBatchedInsert: nothing to do for no rows.
SplitCall ==
  /\ tb.pc = "call"
  /\ tb' = [tb EXCEPT !.pc = IF Len(tb.rows) = 0 THEN "done" ELSE "loop"]
  /\ UNCHANGED restOfUpsert

\* One turn of the outer loop: the slice, its statement, the check of the
\* values against the placeholders, the query (which the database may
\* reject, and does reject when VALUES has no tuple), the step of i.
SplitQuery ==
  /\ tb.pc = "loop"
  /\ \E count \in {SliceCount(tb, tb.i, 0, 0)}, ok \in BOOLEAN :
       LET slice == SubSeq(tb.rows, tb.i + 1, tb.i + count)
           stmt == MakeMultiInsert(tb.cols, slice)
       IN IF stmt.values # tb.cols * Len(slice)
          THEN tb' = [tb EXCEPT !.pc = "failed"]
          ELSE IF Len(stmt.rows) = 0 \/ ~ok
          THEN tb' = [tb EXCEPT !.sent = Append(@, stmt), !.pc = "failed"]
          ELSE tb' = [tb EXCEPT !.sent = Append(@, stmt),
                                !.i = @ + count,
                                !.pc = IF tb.i + count < Len(tb.rows)
                                       THEN "loop" ELSE "done"]
  /\ UNCHANGED restOfUpsert

SplitNext == SplitCall \/ SplitQuery

SplitInit ==
  /\ CoreParked
  /\ LateParked
  /\ PgModeParked
  /\ ExtractParked
  /\ RpcInit
  /\ BootParked
  /\ PoolParked
  /\ FollowParked
  /\ TxnInit
  /\ \E n \in 0..MaxSplitRows, cols \in 1..MaxCols, maxRows \in 1..MaxRowsCap,
        maxParams \in 1..MaxParamsCap :
       tb = SplitStart(n, cols, maxRows, maxParams)

\* The code after an await runs when the query settles.
SplitSpec == SplitInit /\ [][SplitNext]_vars /\ WF_vars(SplitNext)

(* -------------------- assembler and extractRows ----------------------- *)

\* A field that is absent (undefined) or null.
Nullish == 0 - 2

\* assembleTxObjects: decoded.body.messages, one per decoded message.
DecodedMessages(tx) == IF tx.decoded = "ok" THEN tx.msgs ELSE 0

\* pickMessages: tx.decoded.body.messages
PickMessages(tx) == DecodedMessages(tx)

\* The msg_index field of the log entry of message i as the node sends it.
EntryIndex(tx, i) == IF i = 0 /\ tx.omit0 THEN Nullish ELSE i

\* parseRawLogToStructured: Number(entry?.msg_index ?? entry?.msgIndex ?? 0);
\* a log that is no JSON array gives no entry.
ParseRawLogToStructured(tx) ==
  IF ~tx.jsonLog THEN << >>
  ELSE [ j \in 1..tx.msgs |->
           [ msg_index |-> IF EntryIndex(tx, j - 1) = Nullish THEN 0
                           ELSE EntryIndex(tx, j - 1),
             events |-> tx.events ] ]

\* buildCombinedLogs: the per-message entries, then the tx-level events
\* under msg_index null.
BuildCombinedLogs(tx) ==
  IF tx.txEvents > 0
  THEN Append(ParseRawLogToStructured(tx),
              [msg_index |-> Nullish, events |-> tx.txEvents])
  ELSE ParseRawLogToStructured(tx)

\* pickLogs over tx_response.logs: Number(l?.msg_index ?? -1)
PickLogs(tx) ==
  LET logs == BuildCombinedLogs(tx)
  IN [ j \in 1..Len(logs) |->
         [ msg_index |-> IF logs[j].msg_index = Nullish THEN 0 - 1
                         ELSE logs[j].msg_index,
           events |-> logs[j].events ] ]

\* extractRows: a message row per picked message (its msg_index), an event
\* row per event of every log (msg_index, event_index).
ExtractMsgRows(tx) == {i \in 0..(MaxMsgs - 1) : i < PickMessages(tx)}

ExtractEvRows(tx) ==
  LET logs == PickLogs(tx)
  IN UNION { { [msg_index |-> logs[j].msg_index, event_index |-> ei] :
               ei \in 0..(logs[j].events - 1) } : j \in 1..Len(logs) }

\* sink.write runs extractRows on the transaction.
Extract ==
  /\ ~xr.done
  /\ xr' = [xr EXCEPT !.done = TRUE,
                      !.msgRows = ExtractMsgRows(xr.tx),
                      !.evRows = ExtractEvRows(xr.tx)]
  /\ UNCHANGED restOfExtract

ExtractNext == Extract

ExtractInit ==
  /\ CoreParked
  /\ LateParked
  /\ PgModeParked
  /\ RpcInit
  /\ BootParked
  /\ PoolParked
  /\ FollowParked
  /\ TxnInit
  /\ UpsertParked
  /\ \E tx \in TxInputs : xr = ExtractStart(tx)

ExtractSpec == ExtractInit /\ [][ExtractNext]_vars

(* ------------------------------ C14, C15 ------------------------------ *)

\* C14: with resume requested and the SQL sink, the range runner starts at
\* last_height + 1 when a progress row exists, otherwise at the explicit
\* `from` when given, otherwise at the earliest_block_height of status.
C14_ResumeStartHeight ==
  (boot.pc = "syncRange" /\ boot.cfg.resume /\ boot.cfg.sinkKind = "postgres") =>
    boot.startFrom =
      IF boot.cfg.last # NoProgress THEN boot.cfg.last + 1
      ELSE IF boot.cfg.from # Undefined THEN boot.cfg.from
      ELSE boot.cfg.earliest

\* C15: the range runner is never started on a resolved range with
\* to < from.
C15_EmptyRangeRejected ==
  boot.pc = "syncRange" => boot.endHeight >= boot.startFrom

(* --------------------------- C16, C17, C18 ---------------------------- *)

\* HTTP requests started in the 1-second window that ends with the current
\* tick
RECURSIVE StartedIn(_)
StartedIn(n) == IF n = 0 THEN 0 ELSE started[n] + StartedIn(n - 1)

\* C16: for any number of callers sharing the bucket, the number of
\* requests started in any 1-second window never exceeds
\* rps * burst_multiplier.
C16_RateBounded ==
  StartedIn(TicksPerSec) <= Rps * BurstMultiplier

NonRetryable == {"http4xx", "parseError"}
Retryable == {"http5xx", "http429", "abort", "connReset"}

\* C18: a 4xx response other than 429, or a JSON parse error, ends the call
\* with an error at once: no attempt follows it.  5xx, 429, timeouts and
\* aborts are retried: the call fails on one of them only with its
\* retries + 1 attempts made, and before that it backs off and tries again.
C18_RetryClassification ==
  \A c \in RpcCallers :
    /\ rpc[c].outcome \in NonRetryable => rpc[c].pc = "failed"
    /\ (rpc[c].pc = "failed" /\ rpc[c].outcome \in Retryable) =>
         rpc[c].tries = Retries + 1
    /\ (rpc[c].outcome \in Retryable /\ rpc[c].attempt < Retries) =>
         rpc[c].pc \in {"backoff", "take", "fetch"}

\* a call with retries left fails on its first attempt, a 4xx or a body
\* that is not JSON
C18_Witness ==
  \E c \in RpcCallers :
    /\ rpc[c].pc = "failed"
    /\ rpc[c].outcome \in NonRetryable
    /\ rpc[c].tries = 1
    /\ CanRetry(rpc[c].attempt)

(* ------------------------------ C19, C20 ------------------------------ *)

\* decode messages posted to workers and not answered
RECURSIVE InFlightDecodes(_)
InFlightDecodes(w) ==
  IF w = 0 THEN 0 ELSE Cardinality(jobs[w]) + InFlightDecodes(w - 1)

\* C19: at any time at most pool_size decodes are in flight and no worker
\* has more than one decode assigned; the workers a submit call can take
\* are idle ones, each queued once, so that with every worker busy the
\* idle queue is empty and a submit call waits.
C19_PoolBackpressure ==
  /\ InFlightDecodes(PoolSize) <= PoolSize
  /\ \A w \in Workers : Cardinality(jobs[w]) <= 1
  /\ \A a, b \in 1..Len(idle) : idle[a] = idle[b] => a = b
  /\ \A a \in 1..Len(idle) : jobs[idle[a]] = {}
  /\ (\A w \in Workers : jobs[w] # {}) => idle = <<>>

\* every worker decodes and a submit call waits
C19_Witness ==
  /\ \A w \in Workers : Cardinality(jobs[w]) = 1
  /\ \E i \in Txs : sub[i] = "waiting"
  /\ idle = <<>>

\* C20: a failure to decode a transaction never fails its block: the catch
\* block of processHeight, which retries or skips the height, is never
\* entered because a decode failed.
C20_DecodeFailureIsolated ==
  blk.st = "caught" => blk.cause # "decodeError"

(* --------------------------------- C21 -------------------------------- *)

\* the height the follow loop has covered up to
CoveredTo ==
  IF Len(fl.ranges) = 0 THEN fl.endHeight ELSE fl.ranges[Len(fl.ranges)].to

\* C21: the follow loop calls the range runner only with next <= latest,
\* on exactly [next, latest], with concurrency min(cfg.concurrency, 16);
\* it then flushes the sink and sets next = latest + 1.  The ranges are
\* contiguous from endHeight + 1 and disjoint, so every height up to the
\* latest one of a finished iteration is in exactly one range, in ascending
\* order; the loop sleeps only when nothing new is there.
C21_FollowRanges ==
  /\ \A k \in 1..Len(fl.ranges) :
       /\ fl.ranges[k].from <= fl.ranges[k].to
       /\ fl.ranges[k].to = fl.ranges[k].latest
       /\ fl.ranges[k].concurrency = Min(fl.concurrency, FollowMaxConcurrency)
       /\ fl.ranges[k].from =
            IF k = 1 THEN fl.endHeight + 1 ELSE fl.ranges[k - 1].to + 1
  /\ fl.pc \in {"poll", "flush", "sleep"} => fl.next = CoveredTo + 1
  /\ fl.pc \in {"poll", "sleep"} => fl.flushes = Len(fl.ranges)
  /\ fl.pc = "flush" => fl.flushes = Len(fl.ranges) - 1
  /\ fl.pc \in {"flush", "sleep"} => fl.next > fl.latest
  /\ fl.pc = "closing" => ~fl.follow /\ fl.ranges = <<>>

\* the loop has run two live ranges, capped to 16 heights in flight, and
\* flushed after each
C21_Witness ==
  /\ fl.pc = "poll"
  /\ Len(fl.ranges) = 2
  /\ fl.flushes = 2
  /\ fl.concurrency > FollowMaxConcurrency
  /\ fl.ranges[2].to > fl.ranges[2].from

(* -------------------------------------------------------------------------
   C22.  In every sink transaction, when the INSERT statements are about to
   run, a range partition exists for every aligned base between
   the base of minH and the base of maxH, so every row height of the
   operation lies in an existing partition.
   ------------------------------------------------------------------------- *)
InTransaction(s) == sess[s].pc = "begin"

C22_PartitionsBeforeInsert ==
  \A s \in Sessions :
    InTransaction(s) =>
      \A h \in sess[s].minH..sess[s].maxH : PartBase(h) \in parts

\* A flush over more than one partition step, none of them the initial one,
\* is about to insert its rows.
C22_Witness ==
  \E s \in Sessions :
    /\ sess[s].kind = "flushAll"
    /\ sess[s].pc = "begin"
    /\ PartBase(sess[s].minH) > 0
    /\ PartBase(sess[s].maxH) > PartBase(sess[s].minH)

(* -------------------------------------------------------------------------
   C23.  No two sessions run the partition-creating DDL of
   ensureCorePartitions at the same time, the session that runs it holds
   the advisory lock, and a turn of the loop over a base that already has
   its partitions leaves the set of partitions unchanged (and no step ever
   removes a partition).
   ------------------------------------------------------------------------- *)
InDdl == {s \in Sessions : sess[s].pc = "ddl"}

DdlSerialized ==
  /\ Cardinality(InDdl) <= 1
  /\ \A s \in InDdl : lock = s

DdlIdempotent ==
  /\ parts \subseteq parts'
  /\ \A s \in Sessions :
       (sess[s].pc = "ddl" /\ sess[s].base \in parts /\ sess'[s] # sess[s])
         => parts' = parts

C23_LockSerializesDdl == []DdlSerialized /\ [][DdlIdempotent]_vars

\* One session is in the loop over a base that already has its partitions
\* while another session waits for the lock.
C23_Witness ==
  \E s, t \in Sessions :
    /\ s # t
    /\ sess[s].pc = "ddl"
    /\ sess[s].base \in parts
    /\ sess[t].pc = "lockWait"

(* -------------------------------------------------------------------------
   C24.  A sink operation that has ended has acquired one connection and
   released it exactly once.
   ------------------------------------------------------------------------- *)
C24_ReleasedOnce ==
  \A s \in Sessions :
    sess[s].pc \in {"done", "failed"} =>
      (sess[s].acquired = 1 /\ sess[s].released = 1)

(* -------------------------------------------------------------------------
   C25.  At any time at most one height task is inside sink.write, at most
   one caller (a height's write or main's flush) is inside flushAll, and
   every sink.write began while no other caller had a sink operation in
   progress.
   ------------------------------------------------------------------------- *)
WritesInProgress == {h \in Heights : task[h] = "write"}

FlushesInProgress ==
  {c \in Callers : mode = "batch-insert" /\ op[c].pc # "idle"}

C25_SinkSerialized ==
  /\ Cardinality(WritesInProgress) <= 1
  /\ Cardinality(FlushesInProgress) <= 1
  /\ Cardinality({c \in Callers : op[c].pc # "idle"}) <= 1
  /\ \A i \in 1..Len(writeLog) : ~writeLog[i].busy

\* While one height waits inside sink.write, another height task has
\* completed and left its block in ready, and a third is still fetching.
C25_Witness ==
  \E h, g \in Heights :
    /\ h # g
    /\ task[h] = "write"
    /\ g \in DOMAIN ready
    /\ \E k \in Heights \ {h, g} : task[k] = "fetch"

(* -------------------------------------------------------------------------
   C26.  Sending a batch to a table a second time leaves the table as the
   first time left it, and sending a batch to a table that holds every row
   of the batch changes no row and adds none, under each conflict clause.
   ------------------------------------------------------------------------- *)
C26_PersistIdempotent ==
  /\ tb.n >= 1 => tb.store = tb.once
  /\ (tb.n >= 1 /\ tb.had) => tb.store = tb.prev

\* A batch with rows of several keys was sent under DO UPDATE to a table
\* that held every row of it from the time before.
C26_Witness ==
  /\ tb.n >= 2
  /\ tb.policy = "update"
  /\ tb.had
  /\ \E i, j \in 1..Len(tb.batch) :
       /\ tb.batch[i].k # tb.batch[j].k
       /\ tb.batch[i].u # Null

(* -------------------------------------------------------------------------
   C27.  When the process has ended on SIGINT or SIGTERM, the rows that were
   buffered when the signal arrived have been committed, or a flush of them
   was at least begun: the buffers are empty or a flushAll is in progress.
   ------------------------------------------------------------------------- *)
C27_SignalFlushes ==
  proc = "killed" =>
    \/ AllEmpty(buf)
    \/ \E c \in Callers : mode = "batch-insert" /\ op[c].pc # "idle"

(* -------------------------------------------------------------------------
   C28.  When the process that main runs with either configured mode exits
   with code 0 after a closed range with follow = false, every buffer is
   empty, the rows of every height whose
   sink.write returned are committed, and progress.last_height is the
   highest such height.
   ------------------------------------------------------------------------- *)
HighestWritten == CHOOSE h \in written : \A g \in written : g <= h

C28_CompletionFlushed ==
  proc = "exit0" =>
    /\ AllEmpty(buf)
    /\ \A h \in written : RowsCommitted(h)
    /\ written # {} => progress = HighestWritten

\* A run configured as block-atomic has exited with code 0 after it wrote
\* a height and skipped the last height of the range: progress is the
\* highest written height, below `to`.
C28_Witness ==
  /\ proc = "exit0"
  /\ pgMode = "block-atomic"
  /\ written # {}
  /\ To \in skipped
  /\ progress = HighestWritten
  /\ progress < To

(* -------------------------------------------------------------------------
   C29.  For every event row that extractRows emits with msg_index >= 0
   there is a message row of the same transaction with that msg_index.
   ------------------------------------------------------------------------- *)
C29_EventHasMessage ==
  xr.done =>
    \A e \in xr.evRows : e.msg_index >= 0 => e.msg_index \in xr.msgRows

\* The same for transactions whose bytes were decoded.
C29_DecodedOnly == xr.tx.decoded = "ok" => C29_EventHasMessage

(* -------------------------------------------------------------------------
   C30.  When the configured SQL mode is block-atomic, nothing is buffered
   across blocks and the rows of every height whose sink.write returned are
   committed (each write commits its block in its own transaction); when it
   is batch-insert, the sink buffers and commits per batch.
   ------------------------------------------------------------------------- *)
WritesCommitAtOnce ==
  /\ AllEmpty(buf)
  /\ \A h \in written : RowsCommitted(h)

C30_ConfiguredModeHonoured ==
  /\ pgMode = "block-atomic" => WritesCommitAtOnce
  /\ pgMode = "batch-insert" => mode = "batch-insert"

\* The same for a sink constructed with the mode itself.
C30_SinkModeHonoured == mode = "block-atomic" => WritesCommitAtOnce

(* -------------------------------------------------------------------------
   C31.  take(1) returns only when a whole token is available for that
   call: whenever a take returns, the bucket after its refill holds at
   least one token, so the count never has to be clamped from below zero.
   ------------------------------------------------------------------------- *)
C31_TakeNeedsToken ==
  [][\A c \in RpcCallers :
       (rpc[c].pc = "take" /\ rpc'[c].pc = "fetch") =>
         HasTokens(Refill(bucket, now), 1)]_vars

(* -------------------------------------------------------------------------
   C32.  At every point of a syncRange run the window of heights spawned
   and not yet flushed is at most `concurrency` wide:
   nextHeight - nextToFlush <= concurrency, and ready holds at most
   `concurrency` entries.
   ------------------------------------------------------------------------- *)
C32_WindowBounded ==
  /\ nextHeight - nextToFlush <= Concurrency
  /\ Cardinality(DOMAIN ready) <= Concurrency

(* -------------------------------------------------------------------------
   C33.  In batch-insert mode the buffers a flushAll begins with hold whole
   blocks only (every row set of each buffered block), and whenever no sink
   operation is in progress and none has failed, every per-table buffer
   holds fewer rows than its threshold.
   ------------------------------------------------------------------------- *)
WholeBlocks(b) ==
  \A h \in SeqSet(b["blocks"]) : \A t \in chain[h] : h \in SeqSet(b[t])

C33_FlushAtBlockBoundary ==
  mode = "batch-insert" =>
    /\ WholeBlocks(flushSnap)
    /\ ((\A c \in Callers : op[c].pc = "idle") /\ ~sinkFailed) =>
         \A t \in TableSet : Len(buf[t]) < BatchSize(t)

\* A write that reached a threshold has flushed and returned, and a later
\* write has returned with its block buffered below the thresholds.
C33_Witness ==
  /\ mode = "batch-insert"
  /\ proc = "sync"
  /\ \A c \in Callers : op[c].pc = "idle"
  /\ ~sinkFailed
  /\ \E h \in written : RowsCommitted(h)
  /\ \E h \in written : h \in SeqSet(buf["blocks"]) /\ "txs" \in chain[h]

\* C34: execBatchedInsert sends consecutive sub-batches: every statement
\* carries at most maxRows rows and at most maxParams placeholders, the
\* statements sent so far are the rows up to some position in their order,
\* a call that returns has sent every row exactly once, and a call with a
\* non-empty input whose column count is at most maxParams comes to an end
\* (it returns, or the rejection of a query ends it).
RECURSIVE ConcatRows(_)
ConcatRows(sent) ==
  IF Len(sent) = 0 THEN << >>
  ELSE ConcatRows(SubSeq(sent, 1, Len(sent) - 1)) \o sent[Len(sent)].rows

SplitCapped ==
  \A k \in 1..Len(tb.sent) :
    /\ Len(tb.sent[k].rows) <= tb.maxRows
    /\ tb.sent[k].values <= tb.maxParams

SplitInOrder ==
  /\ \E k \in 0..Len(tb.rows) : ConcatRows(tb.sent) = SubSeq(tb.rows, 1, k)
  /\ tb.pc = "done" => ConcatRows(tb.sent) = tb.rows

C34_SubBatches ==
  /\ [](SplitCapped /\ SplitInOrder)
  /\ (tb.pc = "loop" /\ tb.cols <= tb.maxParams) ~> (tb.pc \in {"done", "failed"})

C34_Witness ==
  /\ tb.pc = "done"
  /\ Len(tb.sent) >= 2
  /\ Len(tb.sent[1].rows) < tb.maxRows
  /\ tb.cols * (Len(tb.sent[1].rows) + 1) > tb.maxParams
  /\ Len(tb.sent[Len(tb.sent)].rows) < Len(tb.sent[1].rows)

\* C35: the partition advisory lock is held only around the DDL step: the
\* session that holds it is inside the try block of ensureCorePartitions,
\* so a session whose ensureCorePartitions has ended (also by a failed
\* CREATE TABLE) does not hold it, and no session holds it while its
\* INSERT transaction runs.
C35_LockOnlyAroundDdl ==
  /\ \A s \in Sessions : lock = s => sess[s].pc = "ddl"
  /\ \A s \in Sessions : InTransaction(s) => lock # s

C35_Witness ==
  \E s, t \in Sessions :
    /\ s # t
    /\ InTransaction(s)
    /\ sess[t].pc = "failed" /\ sess[t].released = 1
    /\ lock = NoSession

\* C36: within one syncRange run every height is handed to sink.write at
\* most once; ready never holds a height that was flushed or skipped, and
\* no step stores an entry for a height that is flushed, skipped or in
\* ready already, whatever the order of timeouts, late results of
\* abandoned attempts and retries.
WriteHeights == {writeLog[i].height : i \in 1..Len(writeLog)}

WrittenOnce ==
  \A i, j \in 1..Len(writeLog) :
    i # j => writeLog[i].height # writeLog[j].height

ReadyIsAhead ==
  \A h \in DOMAIN ready :
    h >= nextToFlush /\ h \notin WriteHeights \cup skipped

NoEntryReplaced ==
  \A h \in DOMAIN ready' :
    h \in DOMAIN ready => ready'[h] = ready[h]

C36_WrittenAtMostOnce ==
  [](WrittenOnce /\ ReadyIsAhead) /\ [][NoEntryReplaced]_vars

C36_Witness ==
  \E h \in Heights :
    /\ h \in late
    /\ attempts[h] > 0
    /\ h \in written
    /\ h < nextToFlush
    /\ DOMAIN ready # {}

\* C37: no height is lost inside the runner: each height in
\* [from, nextHeight) is in exactly one place: in flight (its attempt
\* runs), in the retry queue, in ready, being written by tryFlush, or
\* flushed (below nextToFlush).
PlacesOf(h) ==
  {p \in {"inFlight", "retry", "ready", "writing", "flushed"} :
     \/ p = "inFlight" /\ task[h] = "fetch"
     \/ p = "retry" /\ h \in SeqSet(retryQueue)
     \/ p = "ready" /\ h \in DOMAIN ready
     \/ p = "writing" /\ h = nextToFlush /\ \E c \in Heights : task[c] = "write"
     \/ p = "flushed" /\ h < nextToFlush}

C37_NoHeightLost ==
  \A h \in Heights :
    (from <= h /\ h < nextHeight) => Cardinality(PlacesOf(h)) = 1

\* C38: syncRange called with an empty range (from > to) returns with
\* processed = 0: once its direct call of maybeSpawn has run and nothing is
\* in flight (no callback is left that could wake it), the promise it
\* awaits is resolved and processed is 0.
C38_EmptyRangeReturns ==
  (proc = "sync" /\ from > To /\ pendingSpawn = 0 /\ inFlight = 0) =>
    (resolved /\ processed = 0)

\* C39: the decoder pool never loses a live worker: a worker that is
\* marked ready, whose thread lives and which has no decode message left
\* to answer is in the idle list (so a later submit can be assigned to it).
C39_NoLiveWorkerLost ==
  \A w \in Workers :
    (wk[w] # "dead" /\ readyFlags[w] /\ jobs[w] = {}) => w \in SeqSet(idle)

====
